---------------------------- MODULE Spec2Model ----------------------------
(***************************************************************************)
(* FAT32 engine of Eleven-Engineering-SD-File-System: FileSystem           *)
(* construction (boot sector, geometry, recursive directory read) and      *)
(* FileSystem::delete_file, over a block device of 512-byte sectors.       *)
(*                                                                         *)
(* Conventions.  A sector is a function 0..511 -> 0..255 (the source's     *)
(* uint16_t block[512], index as in the source).  A 4-byte big-endian      *)
(* quantity (uint16_t x[4]) is a tuple <<x[0],x[1],x[2],x[3]>>: source     *)
(* index k is tuple index k+1.  A pointer into file_system_entrys[] is the *)
(* index of the element it points at, nullptr is NullPtr.                  *)
(***************************************************************************)
EXTENDS Integers, Sequences, FiniteSets, TLC

(***************************************************************************)
(* Bounds of the model (not program constants).                            *)
(***************************************************************************)
\* number of 512-byte sectors of the card; reads/writes beyond it fail
CardSectors == 14
\* delete_file calls made after construction
MaxCalls == 2
\* a repeated addition/subtraction loop that would make more passes than this
\* is evaluated in closed form, which gives the same value modulo 2^32
LoopCut == 1024
\* block commands kept in io_log; later commands of the same call are not
\* recorded (a delete_file that never leaves its FAT loop issues them forever)
MaxLog == 16
\* times the card changes which block command it fails (FaultSpec)
MaxFaults == 1
\* cluster numbers given to the translators on their own: all of
\* 0..MaxCluster, and some larger ones
MaxCluster == 66

(***************************************************************************)
(* Program constants.                                                      *)
(***************************************************************************)
total_directory_entries == 100
bytes_per_entry == 32
attribute_byte_offset == 11
file_size_offset == 28
directory_entrys_per_sector == 16
num_cluster_entrys_per_fat_table_sector == 128
block_size_bytes == 512

NullPtr == -1

Bit(v, k) == (v \div (2 ^ k)) % 2 = 1

\* x * m modulo 2^32 for a 4-byte quantity x and m in 0..255, slot by slot
TimesSmall(x, m) ==
    LET p3 == x[4] * m
        p2 == x[3] * m + p3 \div 256
        p1 == x[2] * m + p2 \div 256
        p0 == x[1] * m + p1 \div 256
    IN  << p0 % 256, p1 % 256, p2 % 256, p3 % 256 >>

\* x div 128 for a 4-byte quantity x, slot by slot
Div128(x) ==
    << x[1] \div 128,
       (x[1] % 128) * 2 + x[2] \div 128,
       (x[2] % 128) * 2 + x[3] \div 128,
       (x[3] % 128) * 2 + x[4] \div 128 >>

(***************************************************************************)
(* FileSystem::add_4_byte_numbers, byte slot by byte slot with the carries *)
(* of the source; the carry out of slot 0 is discarded.                    *)
(***************************************************************************)
add_4_byte_numbers(number_1, number_2) ==
    LET s3 == number_1[4] + number_2[4]
        carry_byte4 == IF s3 > 255 THEN 1 ELSE 0
        s2 == number_1[3] + number_2[3] + carry_byte4
        carry_byte3 == IF s2 > 255 THEN 1 ELSE 0
        s1 == number_1[2] + number_2[2] + carry_byte3
        carry_byte2 == IF s1 > 255 THEN 1 ELSE 0
        s0 == number_1[1] + number_2[1] + carry_byte2
    IN  << IF s0 > 255 THEN s0 - 256 ELSE s0,
           IF s1 > 255 THEN s1 - 256 ELSE s1,
           IF s2 > 255 THEN s2 - 256 ELSE s2,
           IF s3 > 255 THEN s3 - 256 ELSE s3 >>

(***************************************************************************)
(* FileSystem::subtract_4_byte_numbers, with the borrows of the source;    *)
(* the borrow out of slot 0 is discarded.                                  *)
(***************************************************************************)
subtract_4_byte_numbers(number_1, number_2) ==
    LET d3 == number_1[4] - number_2[4]
        borrow_byte4 == IF d3 < 0 THEN 1 ELSE 0
        d2 == number_1[3] - number_2[3] - borrow_byte4
        borrow_byte3 == IF d2 < 0 THEN 1 ELSE 0
        d1 == number_1[2] - number_2[2] - borrow_byte3
        borrow_byte2 == IF d1 < 0 THEN 1 ELSE 0
        d0 == number_1[1] - number_2[1] - borrow_byte2
    IN  << IF d0 < 0 THEN d0 + 256 ELSE d0,
           IF d1 < 0 THEN d1 + 256 ELSE d1,
           IF d2 < 0 THEN d2 + 256 ELSE d2,
           IF d3 < 0 THEN d3 + 256 ELSE d3 >>

(***************************************************************************)
(* The three counting loops of the source, each as its exit test and one   *)
(* pass over its variables.                                                *)
(***************************************************************************)
\* calculate_sector_address_from_cluster_number, lines 825-840
sector_offset_exit(st) == st.cluster_number_minus_offset = <<0, 0, 0, 0>>

sector_offset_pass(st) ==
    [st EXCEPT !.lba_offset = add_4_byte_numbers(st.sectors_per_cluster_4_byte_addr,
                                                 st.lba_offset),
               !.cluster_number_minus_offset =
                   subtract_4_byte_numbers(st.cluster_number_minus_offset, <<0, 0, 0, 1>>)]

\* calculate_fat_sector_offset_from_cluster_number, lines 868-896
\* the exit test of the FAT translator with the threshold one too high
fat_offset_exit_at_128(st) ==
    /\ st.copy_of_starting_cluster_number[1] = 0
    /\ st.copy_of_starting_cluster_number[2] = 0
    /\ st.copy_of_starting_cluster_number[3] = 0
    /\ st.copy_of_starting_cluster_number[4] <= 128

fat_offset_exit(st) ==
    /\ st.copy_of_starting_cluster_number[1] = 0
    /\ st.copy_of_starting_cluster_number[2] = 0
    /\ st.copy_of_starting_cluster_number[3] = 0
    /\ st.copy_of_starting_cluster_number[4] <= 127

fat_offset_pass(st) ==
    [st EXCEPT !.copy_of_starting_cluster_number =
                   subtract_4_byte_numbers(st.copy_of_starting_cluster_number,
                                           <<0, 0, 0, num_cluster_entrys_per_fat_table_sector>>),
               !.fat_sector_offset = add_4_byte_numbers(st.fat_sector_offset, <<0, 0, 0, 1>>)]

\* constructor, lines 36-40
\* the for loop of the constructor making one pass more
total_fat_sectors_exit_one_late(st) == ~(st.i <= st.number_of_fats)

\* the for loop of the constructor storing sectors_per_fat instead of adding it
total_fat_sectors_pass_storing(st) ==
    [st EXCEPT !.total_fat_sectors = st.sectors_per_fat, !.i = st.i + 1]

total_fat_sectors_exit(st) == ~(st.i < st.number_of_fats)

total_fat_sectors_pass(st) ==
    [st EXCEPT !.total_fat_sectors = add_4_byte_numbers(st.sectors_per_fat, st.total_fat_sectors),
               !.i = st.i + 1]

LoopExit(st) ==
    CASE st.loop = "sector_offset" -> sector_offset_exit(st)
      [] st.loop = "fat_offset" -> fat_offset_exit(st)
      [] st.loop = "total_fat_sectors" -> total_fat_sectors_exit(st)

LoopPass(st) ==
    CASE st.loop = "sector_offset" -> sector_offset_pass(st)
      [] st.loop = "fat_offset" -> fat_offset_pass(st)
      [] st.loop = "total_fat_sectors" -> total_fat_sectors_pass(st)

(***************************************************************************)
(* A loop run to its exit: the passes are applied 1, 2, 4, ... at a time   *)
(* until the exit test holds, which keeps the evaluation shallow; a pass   *)
(* applied after the exit changes nothing.  The tests x = x only make TLC  *)
(* compute x before going on.                                              *)
(***************************************************************************)
RECURSIVE Passes(_, _)
Passes(k, st) ==
    IF k = 0 THEN st
    ELSE IF k = 1 THEN (IF LoopExit(st) THEN st ELSE LoopPass(st))
    ELSE LET half == k \div 2
             middle == Passes(half, st)
         IN  IF middle = middle THEN Passes(k - half, middle) ELSE st

RECURSIVE WhileLoop(_, _)
WhileLoop(k, st) ==
    IF LoopExit(st) THEN st
    ELSE LET next == Passes(k, st)
             twice == 2 * k
         IN  IF next = next /\ twice = twice THEN WhileLoop(twice, next) ELSE st

\* the value of the two low slots of a 4-byte quantity
Low16(x) == x[3] * 256 + x[4]

\* the loop would make more than LoopCut passes
BeyondLoopCut(x, per_pass) == x[1] # 0 \/ x[2] # 0 \/ Low16(x) \div per_pass > LoopCut

(***************************************************************************)
(* The while loop of calculate_sector_address_from_cluster_number:        *)
(* lba_offset += sectors_per_cluster, cluster_number_minus_offset -= 1,    *)
(* until the counter is zero.                                              *)
(***************************************************************************)
sector_offset_loop(cluster_number_minus_offset, sectors_per_cluster_4_byte_addr, lba_offset) ==
    IF BeyondLoopCut(cluster_number_minus_offset, 1)
    THEN add_4_byte_numbers(TimesSmall(cluster_number_minus_offset,
                                       sectors_per_cluster_4_byte_addr[4]),
                            lba_offset)
    ELSE WhileLoop(1,
                   [loop |-> "sector_offset",
                    cluster_number_minus_offset |-> cluster_number_minus_offset,
                    sectors_per_cluster_4_byte_addr |-> sectors_per_cluster_4_byte_addr,
                    lba_offset |-> lba_offset]).lba_offset

\* calculate_sector_address_from_cluster_number with cluster_offset = {0, 0, 0, 1}
sector_address_with_cluster_offset_one(cluster_number, sectors_per_cluster, cluster_begin) ==
    LET cluster_number_minus_offset == subtract_4_byte_numbers(cluster_number, <<0, 0, 0, 1>>)
        lba_offset == sector_offset_loop(cluster_number_minus_offset,
                                         <<0, 0, 0, sectors_per_cluster>>, <<0, 0, 0, 0>>)
    IN  add_4_byte_numbers(cluster_begin, lba_offset)

(***************************************************************************)
(* FileSystem::calculate_sector_address_from_cluster_number; the members   *)
(* it reads are parameters.                                                *)
(***************************************************************************)
calculate_sector_address_from_cluster_number(cluster_number, sectors_per_cluster, cluster_begin) ==
    LET cluster_number_minus_offset == subtract_4_byte_numbers(cluster_number, <<0, 0, 0, 2>>)
        lba_offset == sector_offset_loop(cluster_number_minus_offset,
                                         <<0, 0, 0, sectors_per_cluster>>, <<0, 0, 0, 0>>)
    IN  add_4_byte_numbers(cluster_begin, lba_offset)

(***************************************************************************)
(* FileSystem::calculate_fat_sector_offset_from_cluster_number: repeated   *)
(* subtraction of 128; yields the updated offset accumulator and index.    *)
(***************************************************************************)
calculate_fat_sector_offset_from_cluster_number(cluster_number, fat_sector_offset) ==
    IF BeyondLoopCut(cluster_number, num_cluster_entrys_per_fat_table_sector)
    THEN [fat_sector_offset |-> add_4_byte_numbers(fat_sector_offset, Div128(cluster_number)),
          index |-> (cluster_number[4] % num_cluster_entrys_per_fat_table_sector) * 4]
    ELSE LET st == WhileLoop(1,
                             [loop |-> "fat_offset",
                              copy_of_starting_cluster_number |-> cluster_number,
                              fat_sector_offset |-> fat_sector_offset])
         IN  [fat_sector_offset |-> st.fat_sector_offset,
              index |-> st.copy_of_starting_cluster_number[4] * 4]


(***************************************************************************)
(* On-disk layout (little-endian multi-byte fields), as the engine reads   *)
(* it: used to write the volume images the card can hold.                  *)
(***************************************************************************)
ZeroSector == [k \in 0..511 |-> 0]

\* 11-byte 8.3 name: the given bytes, blank (0x20) padded
NameOf(prefix) == [k \in 1..11 |-> IF k <= Len(prefix) THEN prefix[k] ELSE 32]

\* 32-byte directory entry: name @0-10, attribute @11, cluster-high @20-21,
\* cluster-low @26-27, size @28-31
DirEntry(name, attr, cluster, size) ==
    [k \in 0..31 |->
        IF k < 11 THEN name[k + 1]
        ELSE IF k = attribute_byte_offset THEN attr
        ELSE IF k = 20 THEN (cluster \div 65536) % 256
        ELSE IF k = 21 THEN (cluster \div 16777216) % 256
        ELSE IF k = 26 THEN cluster % 256
        ELSE IF k = 27 THEN (cluster \div 256) % 256
        ELSE IF k >= file_size_offset THEN (size \div (256 ^ (k - file_size_offset))) % 256
        ELSE 0]

\* the same entry after a delete by another FAT32 driver: first byte 0xE5
DeletedDirEntry(name, attr, cluster, size) ==
    [DirEntry(name, attr, cluster, size) EXCEPT ![0] = 229]

\* a long-file-name fragment: sequence byte 0x41, attribute 0x0F
LfnDirEntry == [k \in 0..31 |-> IF k = 0 THEN 65 ELSE IF k = attribute_byte_offset THEN 15 ELSE 0]

\* a directory sector holding the given entries, in order, then zero bytes
DirSector(entries) ==
    [k \in 0..511 |->
        IF (k \div bytes_per_entry) + 1 <= Len(entries)
        THEN entries[(k \div bytes_per_entry) + 1][k % bytes_per_entry]
        ELSE 0]

\* a FAT sector: 128 little-endian 4-byte entries; fat maps entry index -> value
FatSector(fat) ==
    [k \in 0..511 |->
        IF (k \div 4) \in DOMAIN fat THEN (fat[k \div 4] \div (256 ^ (k % 4))) % 256 ELSE 0]

\* Master Boot Record: first partition entry @446, signature @510-511
MbrSector(type_code, lba_begin, number_of_sectors, sig510, sig511) ==
    [k \in 0..511 |->
        IF k = 450 THEN type_code
        ELSE IF k \in 454..457 THEN (lba_begin \div (256 ^ (k - 454))) % 256
        ELSE IF k \in 458..461 THEN (number_of_sectors \div (256 ^ (k - 458))) % 256
        ELSE IF k = 510 THEN sig510
        ELSE IF k = 511 THEN sig511
        ELSE 0]

\* Volume ID: bytes/sector @11-12, sectors/cluster @13, reserved @14-15,
\* FATs @16, media @21, sectors/FAT @36-39, root cluster @44-47, signature
VolumeIdSector(sectors_per_cluster, reserved, number_of_fats, sectors_per_fat, root, sig510, sig511) ==
    [k \in 0..511 |->
        IF k = 12 THEN 2
        ELSE IF k = 13 THEN sectors_per_cluster
        ELSE IF k \in 14..15 THEN (reserved \div (256 ^ (k - 14))) % 256
        ELSE IF k = 16 THEN number_of_fats
        ELSE IF k = 21 THEN 248
        ELSE IF k \in 36..39 THEN (sectors_per_fat \div (256 ^ (k - 36))) % 256
        ELSE IF k \in 44..47 THEN (root \div (256 ^ (k - 44))) % 256
        ELSE IF k = 510 THEN sig510
        ELSE IF k = 511 THEN sig511
        ELSE 0]

\* the card: sectors 0..CardSectors-1, those not laid out are zero
CardOf(layout) ==
    [l \in 0..(CardSectors - 1) |-> IF l \in DOMAIN layout THEN layout[l] ELSE ZeroSector]

(***************************************************************************)
(* Volume images.  Their geometry, unless an image says otherwise:         *)
(* partition at LBA 1, 1 reserved sector, 2 FATs of 1 sector (LBA 2 and    *)
(* 3), 1 sector per cluster, data region at LBA 4, so cluster c is sector  *)
(* c + 2.                                                                  *)
(***************************************************************************)
EOC == 268435455      \* 0x0FFFFFFF
FAT0 == 268435448     \* 0x0FFFFFF8, media descriptor entry of cluster 0

N_DA == NameOf(<<68, 65>>)
N_DB == NameOf(<<68, 66>>)
N_F == NameOf(<<70>>)
N_E1 == NameOf(<<69, 49>>)
N_E2 == NameOf(<<69, 50>>)
N_H == NameOf(<<72>>)
N_VOL == NameOf(<<86, 79, 76>>)
N_DOT == NameOf(<<46>>)
N_DOTDOT == NameOf(<<46, 46>>)
N_OLD == NameOf(<<79, 76, 68>>)
N_X == NameOf(<<88>>)

\* /DA/F (8), /F (5 -> 7 -> 6), /DB/DA/F (10), empty files /E1 and /E2,
\* a volume label, a long-name fragment, a deleted and a hidden entry
TreeFat ==
    FatSector((0 :> FAT0) @@ (1 :> EOC) @@ (2 :> EOC) @@ (3 :> EOC) @@ (4 :> EOC)
              @@ (5 :> 7) @@ (6 :> EOC) @@ (7 :> 6) @@ (8 :> EOC) @@ (9 :> EOC)
              @@ (10 :> EOC))

TreeData ==
    (2 :> TreeFat) @@ (3 :> TreeFat)
    @@ (4 :> DirSector(<< DirEntry(N_VOL, 8, 0, 0),
                          LfnDirEntry,
                          DirEntry(N_DA, 16, 3, 0),
                          DirEntry(N_F, 32, 5, 1300),
                          DirEntry(N_DB, 16, 4, 0),
                          DeletedDirEntry(N_OLD, 32, 11, 7),
                          DirEntry(N_E1, 32, 0, 0),
                          DirEntry(N_H, 34, 0, 0),
                          DirEntry(N_E2, 32, 0, 0) >>))
    @@ (5 :> DirSector(<< DirEntry(N_DOT, 16, 3, 0),
                          DirEntry(N_DOTDOT, 16, 0, 0),
                          DirEntry(N_F, 32, 8, 20) >>))
    @@ (6 :> DirSector(<< DirEntry(N_DOT, 16, 4, 0),
                          DirEntry(N_DOTDOT, 16, 0, 0),
                          DirEntry(N_DA, 16, 9, 0) >>))
    @@ (11 :> DirSector(<< DirEntry(N_DOT, 16, 9, 0),
                           DirEntry(N_DOTDOT, 16, 4, 0),
                           DirEntry(N_F, 32, 10, 512) >>))

GoodMbr == MbrSector(12, 1, CardSectors - 1, 85, 170)
GoodVolumeId == VolumeIdSector(1, 1, 2, 1, 2, 85, 170)

TreeImage == CardOf((0 :> GoodMbr) @@ (1 :> GoodVolumeId) @@ TreeData)

\* a root directory of two sectors (clusters 2 -> 3): /E1 in the first
\* sector, which is otherwise full of deleted entries, /E2 and /F (4) in
\* the second
TwoSectorFat ==
    FatSector((0 :> FAT0) @@ (1 :> EOC) @@ (2 :> 3) @@ (3 :> EOC) @@ (4 :> EOC))

TwoSectorImage ==
    CardOf((0 :> GoodMbr) @@ (1 :> GoodVolumeId)
           @@ (2 :> TwoSectorFat) @@ (3 :> TwoSectorFat)
           @@ (4 :> DirSector(<< DirEntry(N_E1, 32, 0, 0) >>
                              \o [k \in 1..15 |-> DeletedDirEntry(N_OLD, 32, 11, 7)]))
           @@ (5 :> DirSector(<< DirEntry(N_E2, 32, 0, 0), DirEntry(N_F, 32, 4, 9) >>)))

\* a one-file volume (/F at cluster 3) behind boot sectors that fail a check
SmallFat == FatSector((0 :> FAT0) @@ (1 :> EOC) @@ (2 :> EOC) @@ (3 :> EOC))

SmallData ==
    (2 :> SmallFat) @@ (3 :> SmallFat) @@ (4 :> DirSector(<< DirEntry(N_F, 32, 3, 5) >>))

\* partition type 0x07 (not FAT32)
BadTypeImage ==
    CardOf((0 :> MbrSector(7, 1, CardSectors - 1, 85, 170)) @@ (1 :> GoodVolumeId) @@ SmallData)

\* MBR signature 0x55 0xAB
BadMbrSignatureImage ==
    CardOf((0 :> MbrSector(12, 1, CardSectors - 1, 85, 171)) @@ (1 :> GoodVolumeId) @@ SmallData)

\* Volume ID signature 0x00 0x00, partition type 0x0B, signature order 0xAA 0x55
BadVolumeIdSignatureImage ==
    CardOf((0 :> MbrSector(11, 1, CardSectors - 1, 170, 85))
           @@ (1 :> VolumeIdSector(1, 1, 2, 1, 2, 0, 0)) @@ SmallData)

\* a damaged FAT: the chain of /F (3) leads to cluster 130, which the one
\* sector of the FAT does not cover
WildChainFat == FatSector((0 :> FAT0) @@ (1 :> EOC) @@ (2 :> EOC) @@ (3 :> 130))

WildChainImage ==
    CardOf((0 :> GoodMbr) @@ (1 :> GoodVolumeId)
           @@ (2 :> WildChainFat) @@ (3 :> WildChainFat)
           @@ (4 :> DirSector(<< DirEntry(N_F, 32, 3, 700) >>)))

\* a partition at LBA 2048 with 32 reserved sectors, 2 FATs of 968 sectors
\* and 8 sectors per cluster: FAT at 2080, its mirror at 3048, data region
\* and root directory (cluster 2) at 4016.  The root directory has the file
\* README.TXT (cluster 50, 1024 bytes) in slot 0 and nothing in slot 1;
\* slot 2 and the following sector hold entries again.  Only the sectors
\* laid out exist on this card.
N_README == NameOf(<<82, 69, 65, 68, 77, 69, 32, 32, 84, 88, 84>>)
N_GHOST == NameOf(<<71, 72, 79, 83, 84>>)

ZeroDirEntry == [k \in 0..31 |-> 0]

ScenarioFat == FatSector((0 :> FAT0) @@ (1 :> EOC) @@ (2 :> EOC) @@ (50 :> EOC))

ScenarioImage ==
    (0 :> MbrSector(12, 2048, 60000, 85, 170))
    @@ (2048 :> VolumeIdSector(8, 32, 2, 968, 2, 85, 170))
    @@ (2080 :> ScenarioFat) @@ (3048 :> ScenarioFat)
    @@ (4016 :> DirSector(<< DirEntry(N_README, 32, 50, 1024),
                             ZeroDirEntry,
                             DirEntry(N_GHOST, 32, 51, 1) >>))
    @@ (4017 :> DirSector(<< DirEntry(N_X, 32, 52, 1) >>))

\* a Volume ID announcing 2 FATs of 0x7FFFFFFF sectors: the FAT sectors add
\* up to 0xFFFFFFFE and the data region wraps round to LBA 0
WrappingImage ==
    CardOf((0 :> GoodMbr) @@ (1 :> VolumeIdSector(1, 1, 2, 2147483647, 2, 85, 170))
           @@ SmallData)

\* a root directory of 101 empty files: six full sectors (LBA 4..9) and five
\* entries in the seventh (LBA 10)
CrowdedEntries == total_directory_entries + 1

CrowdedFullSectors == CrowdedEntries \div directory_entrys_per_sector

CrowdedImage ==
    CardOf((0 :> GoodMbr) @@ (1 :> GoodVolumeId) @@ (2 :> SmallFat) @@ (3 :> SmallFat)
           @@ [l \in 4..(4 + CrowdedFullSectors) |->
                  DirSector([k \in 1..(IF l < 4 + CrowdedFullSectors
                                        THEN directory_entrys_per_sector
                                        ELSE CrowdedEntries % directory_entrys_per_sector) |->
                                DirEntry(N_X, 32, 0, 0)])])

\* a damaged volume: the entry of /DA in the root directory gives cluster 2,
\* the root directory's own cluster, as the start of /DA
CyclicImage ==
    CardOf((0 :> GoodMbr) @@ (1 :> GoodVolumeId) @@ (2 :> SmallFat) @@ (3 :> SmallFat)
           @@ (4 :> DirSector(<< DirEntry(N_F, 32, 3, 5), DirEntry(N_DA, 16, 2, 0) >>)))

\* a damaged volume: the entry of the directory /DA gives cluster 0, no
\* cluster at all, as the start of /DA
UnallocatedDirectoryImage ==
    CardOf((0 :> GoodMbr) @@ (1 :> GoodVolumeId) @@ (2 :> SmallFat) @@ (3 :> SmallFat)
           @@ (4 :> DirSector(<< DirEntry(N_DA, 16, 0, 0), DirEntry(N_F, 32, 3, 5) >>)))

\* a damaged FAT: the chain of /F (3 -> 4) runs into the free slot of
\* cluster 4, and /X starts at cluster 5, whose slot is free
FreeInChainFat == FatSector((0 :> FAT0) @@ (1 :> EOC) @@ (2 :> EOC) @@ (3 :> 4))

FreeInChainImage ==
    CardOf((0 :> GoodMbr) @@ (1 :> GoodVolumeId)
           @@ (2 :> FreeInChainFat) @@ (3 :> FreeInChainFat)
           @@ (4 :> DirSector(<< DirEntry(N_F, 32, 3, 600), DirEntry(N_X, 32, 5, 5) >>)))

\* entries of every kind the scan tells apart.  Root directory: a hidden
\* directory /H (cluster 3, holding /H/X), a system file, a hidden system
\* directory (cluster 3 as well), "." and ". " as directories, a file named
\* ".", a directory ".X" (cluster 4, empty), /F (cluster 5), an entry with
\* attribute 0x00 and one with 0x01 (read-only), both giving cluster 3, a
\* volume label with the directory bit (0x18), a read-only directory /DB
\* (0x11, cluster 6, holding the empty file /DB/E1), a file /E2 whose
\* starting cluster field is 1
N_S == NameOf(<<83>>)
N_HS == NameOf(<<72, 83>>)
N_DOTSPACE == NameOf(<<46, 32>>)
N_DOTX == NameOf(<<46, 88>>)
N_A0 == NameOf(<<65, 48>>)
N_A1 == NameOf(<<65, 49>>)

AttributesFat ==
    FatSector((0 :> FAT0) @@ (1 :> EOC) @@ (2 :> EOC) @@ (3 :> EOC) @@ (4 :> EOC)
              @@ (5 :> EOC) @@ (6 :> EOC))

AttributesImage ==
    CardOf((0 :> GoodMbr) @@ (1 :> GoodVolumeId)
           @@ (2 :> AttributesFat) @@ (3 :> AttributesFat)
           @@ (4 :> DirSector(<< DirEntry(N_H, 18, 3, 0),
                                 DirEntry(N_S, 36, 0, 0),
                                 DirEntry(N_HS, 22, 3, 0),
                                 DirEntry(N_DOT, 16, 2, 0),
                                 DirEntry(N_DOTSPACE, 16, 2, 0),
                                 DirEntry(N_DOT, 32, 0, 0),
                                 DirEntry(N_DOTX, 16, 4, 0),
                                 DirEntry(N_F, 32, 5, 5),
                                 DirEntry(N_A0, 0, 3, 0),
                                 DirEntry(N_A1, 1, 3, 0),
                                 DirEntry(N_VOL, 24, 3, 0),
                                 DirEntry(N_DB, 17, 6, 0),
                                 DirEntry(N_E2, 32, 1, 0) >>))
           @@ (5 :> DirSector(<< DirEntry(N_X, 32, 0, 0) >>))
           @@ (8 :> DirSector(<< DirEntry(N_E1, 32, 0, 0) >>)))

Volumes ==
    { "tree", "two_sector", "bad_type", "bad_mbr_signature", "bad_volume_id_signature",
      "wild_chain", "scenario", "wrapping", "crowded", "cyclic", "attributes",
      "unallocated_directory", "free_in_chain" }

ImageOf(v) ==
    CASE v = "tree" -> TreeImage
      [] v = "two_sector" -> TwoSectorImage
      [] v = "bad_type" -> BadTypeImage
      [] v = "bad_mbr_signature" -> BadMbrSignatureImage
      [] v = "bad_volume_id_signature" -> BadVolumeIdSignatureImage
      [] v = "wild_chain" -> WildChainImage
      [] v = "scenario" -> ScenarioImage
      [] v = "wrapping" -> WrappingImage
      [] v = "crowded" -> CrowdedImage
      [] v = "cyclic" -> CyclicImage
      [] v = "attributes" -> AttributesImage
      [] v = "unallocated_directory" -> UnallocatedDirectoryImage
      [] v = "free_in_chain" -> FreeInChainImage


(***************************************************************************)
(* State.                                                                  *)
(***************************************************************************)
VARIABLES
    volume,                      \* which volume image the card was given
    disk,                        \* the card: sector number -> 512 bytes
    uninit_byte,                 \* the byte pattern of memory never written
    pc,                          \* position of the one thread of control
    fat_32_master_boot_record,   \* FileSystem members
    fat_32_volume_id,
    fat_begin_lba,
    cluster_begin_lba,
    file_system_entrys,          \* the written elements, element i at i + 1
    file_systems_entry_index,
    mbr_result,                  \* value returned by read_fat32_master_boot_record
    volume_id_result,            \* value returned by read_fat_32_volume_id
    call_stack,                  \* frames of read_directory_recursive
    request,                     \* arguments of the current/last delete_file
    entry_index,                 \* locals of delete_file
    file_deleted_from_fat_table,
    current_cluster_number,
    enclosing_directory_sector_address,
    directory_sector,
    end_of_directory_found,
    file_found_in_directory,
    result,                      \* value returned by the last delete_file
    io_log,                      \* block commands of the constructor / current call
    calls,                       \* delete_file calls made
    history,                     \* (request, result) of the completed calls
    disk_at_call,                \* the card when the current/last call began
    entrys_at_call,              \* file_system_entrys when that call began
    freed_clusters,              \* clusters whose FAT slot step 2 has zeroed
    device_fault,                \* the block command the card currently fails
    faults_left,                 \* changes of device_fault still to come
    translation_input,           \* arguments and members read by a translator
    translation_output,          \* what the translators returned for them
    addition,                    \* the arrays of an add_4_byte_numbers call on its own
    initialization_result,       \* SDCard members
    sd_card_information,
    sd_pc,                       \* position inside initialize_sd_card
    cmd0_sent,                   \* CMD0 commands sent by the current call
    acmd41_sent,                 \* passes of the CMD55/ACMD41 loop of the current call, counted up to MaxAcmd41
    init_returned,               \* values the initialize_sd_card calls returned
    last_command                 \* the SD command sent last, and how it ended

device == << device_fault, faults_left >>

translation == << translation_input, translation_output, addition >>

engine == << fat_32_master_boot_record, fat_32_volume_id, fat_begin_lba, cluster_begin_lba,
             file_system_entrys, file_systems_entry_index >>

delete_locals == << request, entry_index, file_deleted_from_fat_table, current_cluster_number,
                    enclosing_directory_sector_address, directory_sector,
                    end_of_directory_found, file_found_in_directory >>

ghosts == << result, calls, history, disk_at_call, entrys_at_call, freed_clusters >>

card == << initialization_result, sd_card_information, sd_pc, cmd0_sent, acmd41_sent,
           init_returned, last_command >>

vars == << volume, disk, uninit_byte, pc, engine, mbr_result, volume_id_result, call_stack,
           delete_locals, io_log, ghosts, device, translation, card >>

\* values of directory_entry_t
VOLUME_LABEL == 0
DIRECTORY_ENTRY == 1
FILE_ENTRY == 2
LFN_ENTRY == 3

UninitBytes == {0, 1, 88}

\* a 4-slot array / an 11-char name / a 512-slot buffer never written
Uninit4 == << uninit_byte, uninit_byte, uninit_byte, uninit_byte >>
UninitName == [k \in 1..11 |-> uninit_byte]
UninitSector == [k \in 0..511 |-> uninit_byte]

\* an element of file_system_entrys[] the tree build has not written: the
\* default member initializers of FAT32FileSystemEntry, the rest unwritten
UnwrittenEntry ==
    [entry_in_use |-> FALSE,
     parent_directory |-> NullPtr,
     deleted_directory_entry |-> uninit_byte # 0,
     attribute_byte |-> uninit_byte,
     entry_type |-> uninit_byte,
     name_of_entry |-> UninitName,
     starting_cluster_address |-> Uninit4,
     size_of_entry_in_bytes |-> Uninit4]

\* file_system_entrys[i]
Entry(i) == IF i + 1 <= Len(file_system_entrys) THEN file_system_entrys[i + 1] ELSE UnwrittenEntry

(***************************************************************************)
(* Block device.  send_cmd17 leaves the buffer alone when no data token    *)
(* arrives; the card answers no command addressed beyond its last sector.  *)
(***************************************************************************)
SD_CARD_RESPONSE_ACCEPTED == 254
SD_CARD_NO_RESPONSE == 255

\* the sector a 4-byte address designates, -1 when beyond 65535
SectorNumber(block_address) ==
    IF block_address[1] = 0 /\ block_address[2] = 0
    THEN block_address[3] * 256 + block_address[4]
    ELSE -1

\* the card gives no valid response: the sector does not exist, or the
\* card currently fails this command on this sector
NoFault == [op |-> "none", sector |-> -1]

ReadAccepted(block_address) ==
    /\ SectorNumber(block_address) \in DOMAIN disk
    /\ device_fault # [op |-> "read", sector |-> SectorNumber(block_address)]

WriteAccepted(block_address) ==
    /\ SectorNumber(block_address) \in DOMAIN disk
    /\ device_fault # [op |-> "write", sector |-> SectorNumber(block_address)]

send_cmd17(dsk, block, block_address) ==
    IF SectorNumber(block_address) \in DOMAIN dsk /\ ReadAccepted(block_address)
    THEN [response |-> SD_CARD_RESPONSE_ACCEPTED, block |-> dsk[SectorNumber(block_address)]]
    ELSE [response |-> SD_CARD_NO_RESPONSE, block |-> block]

\* the card after send_cmd24(block, block_address)
send_cmd24(dsk, block, block_address) ==
    IF SectorNumber(block_address) \in DOMAIN dsk /\ WriteAccepted(block_address)
    THEN [dsk EXCEPT ![SectorNumber(block_address)] = block]
    ELSE dsk

LogRead(block_address) ==
    [op |-> "read", lba |-> block_address, accepted |-> ReadAccepted(block_address)]

LogWrite(block_address) ==
    [op |-> "write", lba |-> block_address, accepted |-> WriteAccepted(block_address)]

\* the log with one more command, up to MaxLog commands
Record(log, command) == IF Len(log) < MaxLog THEN Append(log, command) ELSE log

(***************************************************************************)
(* Requests made of delete_file on each volume.                            *)
(***************************************************************************)
Req(file_name, enclosing_directory_names) ==
    [file_name |-> file_name,
     num_enclosing_directories |-> Len(enclosing_directory_names),
     enclosing_directory_names |-> enclosing_directory_names]

NoRequest == Req(UninitName, << >>)

Requests ==
    IF volume = "tree"
    THEN { Req(N_F, << >>), Req(N_F, << N_DA >>), Req(N_F, << N_DA, N_DB >>),
           Req(N_F, << N_DB >>), Req(N_E1, << >>), Req(N_E2, << >>), Req(N_DA, << >>) }
    ELSE IF volume = "two_sector"
    THEN { Req(N_E1, << >>), Req(N_E2, << >>), Req(N_F, << >>) }
    ELSE IF volume = "scenario"
    THEN { Req(N_README, << >>), Req(N_GHOST, << >>) }
    ELSE IF volume = "attributes"
    THEN { Req(N_F, << >>), Req(N_E2, << >>), Req(N_E1, << N_DB >>) }
    ELSE IF volume = "unallocated_directory"
    THEN { Req(N_F, << >>), Req(N_X, << >>), Req(UninitName, << >>) }
    ELSE { Req(N_F, << >>), Req(N_X, << >>) }

(***************************************************************************)
(* The SDCard object: result and information types, and the members as the *)
(* constructor leaves them.  FileSystem reads none of these members: they  *)
(* keep these values wherever initialize_sd_card is not the subject.       *)
(***************************************************************************)
\* initialization_result_t
INIT_SUCCESS == 0
INIT_FAILED_ON_CMD0 == 1
INIT_FAILED_ON_CMD8 == 2
INIT_FAILED_ON_CMD58 == 3
INIT_FAILED_ON_CMD55 == 4
INIT_FAILED_ON_ACMD41 == 5
INIT_RESULT_NA == 6

\* sd_card_version_t and sd_card_standard_t
VER_1 == 0
VER_2 == 1
VER_NA == 2
SDSC == 0
SDHC_OR_SDXC == 1
SDNA == 2

\* sd_card_command_response_t
SD_CARD_NOT_IN_IDLE_MODE_RESPONSE == 0
SD_CARD_IN_IDLE_MODE_RESPONSE == 1
SD_CARD_ILLEGAL_COMMAND == 5
SD_CARD_ILLEGAL_COMMAND_AND_CRC_ERROR == 13
SD_CARD_CHECK_PATTERN_ERROR == 252
SD_CARD_UNSUPPORTED_VOLTAGE == 253

NUM_INVALID_RESPONSE_LIMIT_SPI_READ == 10
max_number_cmd0_commands_sent == 10

\* calls of initialize_sd_card made of one SDCard object
MaxInitCalls == 2
\* passes of the CMD55/ACMD41 loop followed while the card stays idle
MaxAcmd41 == 2

\* the default member initialisers (SDCard.h lines 82-92 and 231-232)
SDCardConstructed ==
    /\ initialization_result = INIT_RESULT_NA
    /\ sd_card_information =
           [sd_card_version |-> VER_NA, sd_card_standard |-> SDNA,
            ocr_register_contents |-> <<0, 0, 0, 0>>]
    /\ sd_pc = "constructed"
    /\ cmd0_sent = 0
    /\ acmd41_sent = 0
    /\ init_returned = << >>
    /\ last_command = [command |-> "none", response |-> SD_CARD_NO_RESPONSE, spi_reads |-> 0]

(***************************************************************************)
(* Init: the state when main() enters the FileSystem constructor.          *)
(***************************************************************************)
ObjectInit ==
    /\ disk = ImageOf(volume)
    /\ fat_32_master_boot_record =
           [type_code |-> uninit_byte, lba_begin |-> Uninit4, number_of_sectors |-> Uninit4,
            mbr_signature |-> << uninit_byte, uninit_byte >>]
    /\ fat_32_volume_id =
           [sectors_per_cluster |-> uninit_byte,
            size_of_reserved_area_sectors |-> << uninit_byte, uninit_byte >>,
            number_of_fats |-> uninit_byte,
            sectors_per_fat |-> Uninit4,
            root_directory_first_cluster |-> Uninit4,
            volume_id_signature |-> << uninit_byte, uninit_byte >>]
    /\ fat_begin_lba = Uninit4
    /\ cluster_begin_lba = <<0, 0, 0, 0>>
    /\ file_system_entrys = << >>
    /\ file_systems_entry_index = 0
    /\ mbr_result = "none"
    /\ volume_id_result = "none"
    /\ call_stack = << >>
    /\ request = NoRequest
    /\ entry_index = -1
    /\ file_deleted_from_fat_table = FALSE
    /\ current_cluster_number = <<0, 0, 0, 0>>
    /\ enclosing_directory_sector_address = <<0, 0, 0, 0>>
    /\ directory_sector = ZeroSector
    /\ end_of_directory_found = FALSE
    /\ file_found_in_directory = FALSE
    /\ result = "none"
    /\ io_log = << >>
    /\ calls = 0
    /\ history = << >>
    /\ disk_at_call = disk
    /\ entrys_at_call = << >>
    /\ freed_clusters = {}

ProgramInit ==
    /\ volume \in Volumes
    /\ uninit_byte \in UninitBytes
    /\ pc = "read_mbr"
    /\ ObjectInit
    /\ SDCardConstructed

\* no add_4_byte_numbers call on its own
NoAddition ==
    [memory |-> [a \in {"x", "y", "z"} |-> <<0, 0, 0, 0>>],
     number_1 |-> "x", number_2 |-> "y", result |-> "z",
     operand_1 |-> <<0, 0, 0, 0>>, operand_2 |-> <<0, 0, 0, 0>>, returned |-> FALSE]

\* no translator call on its own
NoTranslation ==
    /\ addition = NoAddition
    /\ translation_input =
           [cluster_number |-> <<0, 0, 0, 0>>, sectors_per_cluster |-> 0,
            cluster_begin_lba |-> <<0, 0, 0, 0>>]
    /\ translation_output =
           [sector_address |-> << >>, fat_sector_offset |-> << >>, index |-> -1]

\* a card that answers every command on an existing sector
Init ==
    /\ ProgramInit
    /\ device_fault = NoFault
    /\ faults_left = 0
    /\ NoTranslation


\* read_fat32_master_boot_record storing the two 4-byte fields in disk order
read_fat32_master_boot_record_keeping_disk_order ==
    LET cmd17 == send_cmd17(disk, UninitSector, <<0, 0, 0, 0>>)
        mbr_512_byte_sector == cmd17.block
        parsed ==
            [type_code |-> mbr_512_byte_sector[450],
             lba_begin |-> << mbr_512_byte_sector[454], mbr_512_byte_sector[455],
                              mbr_512_byte_sector[456], mbr_512_byte_sector[457] >>,
             number_of_sectors |-> << mbr_512_byte_sector[458], mbr_512_byte_sector[459],
                                      mbr_512_byte_sector[460], mbr_512_byte_sector[461] >>,
             mbr_signature |-> << mbr_512_byte_sector[511], mbr_512_byte_sector[510] >>]
        valid_signature ==
            \/ parsed.mbr_signature[1] = 85 /\ parsed.mbr_signature[2] = 170
            \/ parsed.mbr_signature[1] = 170 /\ parsed.mbr_signature[2] = 85
    IN  IF cmd17.response = SD_CARD_RESPONSE_ACCEPTED
        THEN [record |-> parsed,
              returns |-> (parsed.type_code = 11 \/ parsed.type_code = 12) /\ valid_signature]
        ELSE [record |-> fat_32_master_boot_record, returns |-> FALSE]

(***************************************************************************)
(* FileSystem::read_fat32_master_boot_record.                              *)
(***************************************************************************)
read_fat32_master_boot_record ==
    LET cmd17 == send_cmd17(disk, UninitSector, <<0, 0, 0, 0>>)
        mbr_512_byte_sector == cmd17.block
        parsed ==
            [type_code |-> mbr_512_byte_sector[450],
             lba_begin |-> << mbr_512_byte_sector[457], mbr_512_byte_sector[456],
                              mbr_512_byte_sector[455], mbr_512_byte_sector[454] >>,
             number_of_sectors |-> << mbr_512_byte_sector[461], mbr_512_byte_sector[460],
                                      mbr_512_byte_sector[459], mbr_512_byte_sector[458] >>,
             mbr_signature |-> << mbr_512_byte_sector[511], mbr_512_byte_sector[510] >>]
        valid_signature ==
            \/ parsed.mbr_signature[1] = 85 /\ parsed.mbr_signature[2] = 170
            \/ parsed.mbr_signature[1] = 170 /\ parsed.mbr_signature[2] = 85
    IN  IF cmd17.response = SD_CARD_RESPONSE_ACCEPTED
        THEN [record |-> parsed,
              returns |-> (parsed.type_code = 11 \/ parsed.type_code = 12) /\ valid_signature]
        ELSE [record |-> fat_32_master_boot_record, returns |-> FALSE]

\* constructor, line 19: the returned value is not used
ReadMasterBootRecord ==
    /\ pc = "read_mbr"
    /\ fat_32_master_boot_record' = read_fat32_master_boot_record.record
    /\ mbr_result' = read_fat32_master_boot_record.returns
    /\ io_log' = Record(io_log, LogRead(<<0, 0, 0, 0>>))
    /\ pc' = "read_volume_id"
    /\ UNCHANGED << card, volume, device, translation, disk, uninit_byte, fat_32_volume_id, fat_begin_lba, cluster_begin_lba,
                    file_system_entrys, file_systems_entry_index, volume_id_result, call_stack,
                    delete_locals, ghosts >>

(***************************************************************************)
(* FileSystem::read_fat_32_volume_id: the fields are taken from the buffer *)
(* whatever send_cmd17 answered.  The buffer is a local array without an   *)
(* initialiser (line 458): before the read it holds either arbitrary bytes *)
(* or what the preceding call left on the stack, which is the sector that  *)
(* read_fat32_master_boot_record read into its own local array.            *)
(***************************************************************************)
UnreadVolumeIdSectors ==
    { UninitSector } \cup
    { send_cmd17(disk, UninitSector, io_log[k].lba).block :
          k \in { j \in DOMAIN io_log : io_log[j].op = "read" /\ io_log[j].accepted } }

read_fat_32_volume_id(block_address, unread_sector) ==
    LET cmd17 == send_cmd17(disk, unread_sector, block_address)
        volume_id_sector == cmd17.block
        parsed ==
            [sectors_per_cluster |-> volume_id_sector[13],
             size_of_reserved_area_sectors |-> << volume_id_sector[15], volume_id_sector[14] >>,
             number_of_fats |-> volume_id_sector[16],
             sectors_per_fat |-> << volume_id_sector[39], volume_id_sector[38],
                                    volume_id_sector[37], volume_id_sector[36] >>,
             root_directory_first_cluster |-> << volume_id_sector[47], volume_id_sector[46],
                                                 volume_id_sector[45], volume_id_sector[44] >>,
             volume_id_signature |-> << volume_id_sector[511], volume_id_sector[510] >>]
        valid_signature ==
            \/ parsed.volume_id_signature[1] = 85 /\ parsed.volume_id_signature[2] = 170
            \/ parsed.volume_id_signature[1] = 170 /\ parsed.volume_id_signature[2] = 85
    IN  [record |-> parsed, returns |-> valid_signature]

\* constructor, line 22: called whatever line 19 returned, result not used
ReadVolumeId ==
    /\ pc = "read_volume_id"
    /\ \E unread_sector \in UnreadVolumeIdSectors :
           LET call == read_fat_32_volume_id(fat_32_master_boot_record.lba_begin, unread_sector)
           IN  /\ fat_32_volume_id' = call.record
               /\ volume_id_result' = call.returns
    /\ io_log' = Record(io_log, LogRead(fat_32_master_boot_record.lba_begin))
    /\ pc' = "geometry"
    /\ UNCHANGED << card, volume, device, translation, disk, uninit_byte, fat_32_master_boot_record, fat_begin_lba,
                    cluster_begin_lba, file_system_entrys, file_systems_entry_index, mbr_result,
                    call_stack, delete_locals, ghosts >>

\* constructor, lines 36-40: number_of_fats additions of sectors_per_fat
total_fat_sectors_loop(i, number_of_fats, sectors_per_fat, total_fat_sectors) ==
    WhileLoop(1,
              [loop |-> "total_fat_sectors", i |-> i, number_of_fats |-> number_of_fats, sectors_per_fat |-> sectors_per_fat,
               total_fat_sectors |-> total_fat_sectors]).total_fat_sectors

\* a recursive call that begins its scan at the second slot
EnterDirectory_at_second_slot(directory_begin_sector_addr, parent_directory) ==
    [directory_sector_addr_lba |-> directory_begin_sector_addr,
     directory_sector |-> send_cmd17(disk, ZeroSector, directory_begin_sector_addr).block,
     i |-> 1,
     parent_directory |-> parent_directory]

\* a recursive call given the array slot after the new element as parent
EnterDirectory_with_next_slot_as_parent(directory_begin_sector_addr, parent_directory) ==
    [directory_sector_addr_lba |-> directory_begin_sector_addr,
     directory_sector |-> send_cmd17(disk, ZeroSector, directory_begin_sector_addr).block,
     i |-> 0,
     parent_directory |-> IF parent_directory = NullPtr THEN NullPtr ELSE parent_directory + 1]

\* entry of read_directory_recursive (lines 659-671): the frame of the call
\* after the first sector of the directory has been read
EnterDirectory(directory_begin_sector_addr, parent_directory) ==
    [directory_sector_addr_lba |-> directory_begin_sector_addr,
     directory_sector |-> send_cmd17(disk, ZeroSector, directory_begin_sector_addr).block,
     i |-> 0,
     parent_directory |-> parent_directory]

\* constructor, lines 24-51: both geometry values, then the call of
\* read_directory_recursive on the root directory
DeriveGeometry ==
    /\ pc = "geometry"
    /\ LET fat_begin ==
               add_4_byte_numbers(fat_32_master_boot_record.lba_begin,
                                  << 0, 0, fat_32_volume_id.size_of_reserved_area_sectors[1],
                                     fat_32_volume_id.size_of_reserved_area_sectors[2] >>)
           total_fat_sectors ==
               total_fat_sectors_loop(0, fat_32_volume_id.number_of_fats,
                                      fat_32_volume_id.sectors_per_fat, <<0, 0, 0, 0>>)
           cluster_begin == add_4_byte_numbers(fat_begin, total_fat_sectors)
           root_directory_sector_begin_addr ==
               calculate_sector_address_from_cluster_number(
                   fat_32_volume_id.root_directory_first_cluster,
                   fat_32_volume_id.sectors_per_cluster, cluster_begin)
       IN  /\ fat_begin_lba' = fat_begin
           /\ cluster_begin_lba' = cluster_begin
           /\ call_stack' = << EnterDirectory(root_directory_sector_begin_addr, NullPtr) >>
           /\ io_log' = Record(io_log, LogRead(root_directory_sector_begin_addr))
    /\ pc' = "build"
    /\ UNCHANGED << card, volume, device, translation, disk, uninit_byte, fat_32_master_boot_record, fat_32_volume_id,
                    file_system_entrys, file_systems_entry_index, mbr_result, volume_id_result,
                    delete_locals, ghosts >>

(***************************************************************************)
(* The entries both directory scans pass over (lines 684-729, and again    *)
(* 292-337): deleted, long-name fragment, hidden or system, "." and "..".  *)
(***************************************************************************)
IsDotEntry(sector, i) ==
    /\ Bit(sector[i * bytes_per_entry + attribute_byte_offset], 4)
    /\ sector[i * bytes_per_entry] = 46
    /\ (sector[i * bytes_per_entry + 1] = 46 \/ sector[i * bytes_per_entry + 1] = 32)
    /\ \A j \in 2..10 : sector[i * bytes_per_entry + j] = 32

\* the scan without the test of the system bit
IsIgnoredEntry_taking_system_entries(sector, i) ==
    \/ sector[i * bytes_per_entry] = 229
    \/ sector[i * bytes_per_entry + attribute_byte_offset] = 15
    \/ Bit(sector[i * bytes_per_entry + attribute_byte_offset], 1)
    \/ IsDotEntry(sector, i)

IsIgnoredEntry(sector, i) ==
    \/ sector[i * bytes_per_entry] = 229
    \/ sector[i * bytes_per_entry + attribute_byte_offset] = 15
    \/ Bit(sector[i * bytes_per_entry + attribute_byte_offset], 1)
    \/ Bit(sector[i * bytes_per_entry + attribute_byte_offset], 2)
    \/ IsDotEntry(sector, i)

\* NewEntry recording no parent
NewEntry_without_parent(sector, i, parent_directory, previous) ==
    LET o == i * bytes_per_entry
        attribute == sector[o + attribute_byte_offset]
    IN  [entry_in_use |-> TRUE,
         parent_directory |-> NullPtr,
         deleted_directory_entry |-> previous.deleted_directory_entry,
         attribute_byte |-> attribute,
         entry_type |-> IF Bit(attribute, 3) THEN VOLUME_LABEL
                        ELSE IF Bit(attribute, 4) THEN DIRECTORY_ENTRY
                        ELSE IF Bit(attribute, 5) THEN FILE_ENTRY
                        ELSE previous.entry_type,
         name_of_entry |-> [j \in 1..11 |-> sector[o + j - 1]],
         starting_cluster_address |-> << sector[o + 21], sector[o + 20],
                                         sector[o + 27], sector[o + 26] >>,
         size_of_entry_in_bytes |-> << sector[o + file_size_offset + 3],
                                       sector[o + file_size_offset + 2],
                                       sector[o + file_size_offset + 1],
                                       sector[o + file_size_offset] >>]

\* the element written with its own array slot as parent
NewEntry_as_own_parent(sector, i, parent_directory, previous) ==
    LET o == i * bytes_per_entry
        attribute == sector[o + attribute_byte_offset]
    IN  [entry_in_use |-> TRUE,
         parent_directory |-> IF parent_directory = NullPtr THEN NullPtr
                              ELSE file_systems_entry_index,
         deleted_directory_entry |-> previous.deleted_directory_entry,
         attribute_byte |-> attribute,
         entry_type |-> IF Bit(attribute, 3) THEN VOLUME_LABEL
                        ELSE IF Bit(attribute, 4) THEN DIRECTORY_ENTRY
                        ELSE IF Bit(attribute, 5) THEN FILE_ENTRY
                        ELSE previous.entry_type,
         name_of_entry |-> [j \in 1..11 |-> sector[o + j - 1]],
         starting_cluster_address |-> << sector[o + 21], sector[o + 20],
                                         sector[o + 27], sector[o + 26] >>,
         size_of_entry_in_bytes |-> << sector[o + file_size_offset + 3],
                                       sector[o + file_size_offset + 2],
                                       sector[o + file_size_offset + 1],
                                       sector[o + file_size_offset] >>]

\* lines 731-768: the element written at file_system_entrys[file_systems_entry_index];
\* entry_type keeps what the element held when no attribute bit 3, 4, 5 is set
NewEntry(sector, i, parent_directory, previous) ==
    LET o == i * bytes_per_entry
        attribute == sector[o + attribute_byte_offset]
    IN  [entry_in_use |-> TRUE,
         parent_directory |-> parent_directory,
         deleted_directory_entry |-> previous.deleted_directory_entry,
         attribute_byte |-> attribute,
         entry_type |-> IF Bit(attribute, 3) THEN VOLUME_LABEL
                        ELSE IF Bit(attribute, 4) THEN DIRECTORY_ENTRY
                        ELSE IF Bit(attribute, 5) THEN FILE_ENTRY
                        ELSE previous.entry_type,
         name_of_entry |-> [j \in 1..11 |-> sector[o + j - 1]],
         starting_cluster_address |-> << sector[o + 21], sector[o + 20],
                                         sector[o + 27], sector[o + 26] >>,
         size_of_entry_in_bytes |-> << sector[o + file_size_offset + 3],
                                       sector[o + file_size_offset + 2],
                                       sector[o + file_size_offset + 1],
                                       sector[o + file_size_offset] >>]

\* a scan that takes no slot for the end of the directory
end_of_directory_missed(sector, i) == FALSE

\* lines 677-682: the slot whose first byte is 0x00 ends the directory
end_of_directory(sector, i) == sector[i * bytes_per_entry] = 0

Top == call_stack[Len(call_stack)]

Pop == SubSeq(call_stack, 1, Len(call_stack) - 1)

\* read_directory_recursive, one pass of the for loop (lines 675-785) in the
\* innermost call: terminator (the call returns), ignored entry, or a new
\* element, with the recursive call for a directory
ScanEntry ==
    /\ pc = "build"
    /\ call_stack # << >>
    /\ Top.i < directory_entrys_per_sector
    /\ LET f == Top
           advanced == [f EXCEPT !.i = f.i + 1]
           element == NewEntry(f.directory_sector, f.i, f.parent_directory,
                               Entry(file_systems_entry_index))
           sector_address ==
               calculate_sector_address_from_cluster_number(
                   element.starting_cluster_address, fat_32_volume_id.sectors_per_cluster,
                   cluster_begin_lba)
       IN  IF end_of_directory(f.directory_sector, f.i)
           THEN /\ call_stack' = Pop
                /\ pc' = IF Len(call_stack) = 1 THEN "ready" ELSE "build"
                /\ UNCHANGED << file_system_entrys, file_systems_entry_index, io_log >>
           ELSE IF IsIgnoredEntry(f.directory_sector, f.i)
           THEN /\ call_stack' = Append(Pop, advanced)
                /\ UNCHANGED << pc, file_system_entrys, file_systems_entry_index, io_log >>
           ELSE IF file_systems_entry_index >= total_directory_entries
           THEN \* a write past the end of file_system_entrys[]
                /\ pc' = "out_of_bounds"
                /\ UNCHANGED << call_stack, file_system_entrys, file_systems_entry_index,
                                io_log >>
           ELSE /\ file_system_entrys' = Append(file_system_entrys, element)
                /\ file_systems_entry_index' = file_systems_entry_index + 1
                /\ IF element.entry_type = DIRECTORY_ENTRY
                   THEN /\ call_stack' =
                               Append(Append(Pop, advanced),
                                      EnterDirectory(sector_address, file_systems_entry_index))
                        /\ io_log' = Record(io_log, LogRead(sector_address))
                   ELSE /\ call_stack' = Append(Pop, advanced)
                        /\ UNCHANGED io_log
                /\ UNCHANGED pc
    /\ UNCHANGED << card, volume, device, translation, disk, uninit_byte, fat_32_master_boot_record, fat_32_volume_id,
                    fat_begin_lba, cluster_begin_lba, mbr_result, volume_id_result,
                    delete_locals, ghosts >>

\* the next pass of the while loop on the sector already scanned
NextSector_reading_same_sector ==
    /\ pc = "build"
    /\ call_stack # << >>
    /\ Top.i = directory_entrys_per_sector
    /\ LET f == Top
           next == f.directory_sector_addr_lba
       IN  /\ call_stack' =
                  Append(Pop, [f EXCEPT !.directory_sector_addr_lba = next,
                                        !.directory_sector =
                                            send_cmd17(disk, f.directory_sector, next).block,
                                        !.i = 0])
           /\ io_log' = Record(io_log, LogRead(next))
    /\ UNCHANGED << card, volume, device, translation, disk, uninit_byte, pc, engine, mbr_result, volume_id_result,
                    delete_locals, ghosts >>

\* read_directory_recursive, lines 787-796: sixteen entries without a
\* terminator, the sector at the next address is read into the same buffer
NextSector ==
    /\ pc = "build"
    /\ call_stack # << >>
    /\ Top.i = directory_entrys_per_sector
    /\ LET f == Top
           next == add_4_byte_numbers(<<0, 0, 0, 1>>, f.directory_sector_addr_lba)
       IN  /\ call_stack' =
                  Append(Pop, [f EXCEPT !.directory_sector_addr_lba = next,
                                        !.directory_sector =
                                            send_cmd17(disk, f.directory_sector, next).block,
                                        !.i = 0])
           /\ io_log' = Record(io_log, LogRead(next))
    /\ UNCHANGED << card, volume, device, translation, disk, uninit_byte, pc, engine, mbr_result, volume_id_result,
                    delete_locals, ghosts >>

(***************************************************************************)
(* delete_file, step 1 (lines 73-166): the search of file_system_entrys[]. *)
(***************************************************************************)
\* lines 79-89
entry_name_match(i, file_name) ==
    \A k \in 1..11 : Entry(i).name_of_entry[k] = file_name[k]

\* lines 123-133: the requested directory name is masked to its low 8 bits
directory_name_match(current_parent_directory, enclosing_directory_name) ==
    \A k \in 1..11 :
        Entry(current_parent_directory).name_of_entry[k] = enclosing_directory_name[k] % 256

\* the j loop taking "no ancestor left" for a match
RECURSIVE path_loop_accepting_missing_ancestor(_, _, _)
path_loop_accepting_missing_ancestor(j, current_parent_directory, req) ==
    IF j >= req.num_enclosing_directories \/ current_parent_directory = NullPtr
    THEN [absolute_path_match |-> TRUE, current_parent_directory |-> current_parent_directory]
    ELSE IF directory_name_match(current_parent_directory, req.enclosing_directory_names[j + 1])
    THEN path_loop_accepting_missing_ancestor(
             j + 1, Entry(current_parent_directory).parent_directory, req)
    ELSE [absolute_path_match |-> FALSE, current_parent_directory |-> current_parent_directory]

\* lines 116-154: the j loop; yields absolute_path_match and the value of
\* current_parent_directory when the loop is left
RECURSIVE path_loop(_, _, _)
path_loop(j, current_parent_directory, req) ==
    IF j >= req.num_enclosing_directories
    THEN [absolute_path_match |-> TRUE, current_parent_directory |-> current_parent_directory]
    ELSE IF current_parent_directory # NullPtr
    THEN IF directory_name_match(current_parent_directory, req.enclosing_directory_names[j + 1])
         THEN path_loop(j + 1, Entry(current_parent_directory).parent_directory, req)
         ELSE [absolute_path_match |-> FALSE,
               current_parent_directory |-> current_parent_directory]
    ELSE [absolute_path_match |-> FALSE, current_parent_directory |-> current_parent_directory]

\* the path check without the test that the root has been reached
path_verified_without_root_test(i, req) ==
    path_loop(0, Entry(i).parent_directory, req).absolute_path_match

\* lines 99-163: whether the loop is left with entry_index = i
path_verified(i, req) ==
    IF req.num_enclosing_directories = 0 /\ Entry(i).parent_directory = NullPtr
    THEN TRUE
    ELSE LET walk == path_loop(0, Entry(i).parent_directory, req)
         IN  walk.absolute_path_match /\ walk.current_parent_directory = NullPtr

\* lines 73-166: entry_index when the i loop that started at i is left
RECURSIVE search_entrys(_, _)
search_entrys(i, req) ==
    IF i >= total_directory_entries
    THEN -1
    ELSE IF entry_name_match(i, req.file_name) /\ path_verified(i, req)
    THEN i
    ELSE search_entrys(i + 1, req)

\* lines 180-183
\* the test taking cluster number 0 only for "no cluster"
no_cluster_allocated_zero_only(starting_cluster_address) ==
    /\ starting_cluster_address[4] = 0
    /\ starting_cluster_address[3] = 0
    /\ starting_cluster_address[2] = 0
    /\ starting_cluster_address[1] = 0

no_cluster_allocated(starting_cluster_address) ==
    /\ (starting_cluster_address[4] = 0 \/ starting_cluster_address[4] = 1)
    /\ starting_cluster_address[3] = 0
    /\ starting_cluster_address[2] = 0
    /\ starting_cluster_address[1] = 0

\* delete_file reading the first sector of the root directory before it
\* returns for want of an element
CallDeleteFile_reading_before_return ==
    /\ pc = "ready"
    /\ calls < MaxCalls
    /\ \E req \in Requests :
          LET found == search_entrys(0, req)
          IN  /\ request' = req
              /\ entry_index' = found
              /\ IF found = -1
                 THEN /\ result' = FALSE
                      /\ history' = Append(history, [request |-> req, entry_index |-> found,
                                                     result |-> FALSE])
                      /\ pc' = "ready"
                      /\ io_log' = << LogRead(cluster_begin_lba) >>
                      /\ UNCHANGED << file_deleted_from_fat_table, current_cluster_number >>
                 ELSE /\ file_deleted_from_fat_table' =
                             no_cluster_allocated(Entry(found).starting_cluster_address)
                      /\ current_cluster_number' = Entry(found).starting_cluster_address
                      /\ result' = "none"
                      /\ pc' = "free_fat_chain"
                      /\ io_log' = << >>
                      /\ UNCHANGED history
    /\ calls' = calls + 1
    /\ disk_at_call' = disk
    /\ entrys_at_call' = file_system_entrys
    /\ freed_clusters' = {}
    /\ UNCHANGED << card, volume, device, translation, disk, uninit_byte, engine, mbr_result, volume_id_result, call_stack,
                    enclosing_directory_sector_address, directory_sector,
                    end_of_directory_found, file_found_in_directory >>

\* delete_file is called: lines 70-193, up to the while loop of step 2, or
\* to the early return when no element is found
CallDeleteFile ==
    /\ pc = "ready"
    /\ calls < MaxCalls
    /\ \E req \in Requests :
          LET found == search_entrys(0, req)
          IN  /\ request' = req
              /\ entry_index' = found
              /\ IF found = -1
                 THEN /\ result' = FALSE
                      /\ history' = Append(history, [request |-> req, entry_index |-> found,
                                                     result |-> FALSE])
                      /\ pc' = "ready"
                      /\ UNCHANGED << file_deleted_from_fat_table, current_cluster_number >>
                 ELSE /\ file_deleted_from_fat_table' =
                             no_cluster_allocated(Entry(found).starting_cluster_address)
                      /\ current_cluster_number' = Entry(found).starting_cluster_address
                      /\ result' = "none"
                      /\ pc' = "free_fat_chain"
                      /\ UNCHANGED history
    /\ calls' = calls + 1
    /\ disk_at_call' = disk
    /\ entrys_at_call' = file_system_entrys
    /\ io_log' = << >>
    /\ freed_clusters' = {}
    /\ UNCHANGED << card, volume, device, translation, disk, uninit_byte, engine, mbr_result, volume_id_result, call_stack,
                    enclosing_directory_sector_address, directory_sector,
                    end_of_directory_found, file_found_in_directory >>

(***************************************************************************)
(* delete_file, step 2 (lines 195-243): one pass of the while loop.        *)
(***************************************************************************)
\* lines 228-231
is_end_of_chain(data_stored_at_cluster_index) ==
    /\ data_stored_at_cluster_index[1] >= 15
    /\ data_stored_at_cluster_index[2] = 255
    /\ data_stored_at_cluster_index[3] = 255
    /\ data_stored_at_cluster_index[4] >= 248

\* the slot cleared in its three low bytes only
clear_fat_slot_low_bytes(current_fat_table_sector, cluster_index_in_sector) ==
    [current_fat_table_sector EXCEPT ![cluster_index_in_sector] = 0,
                                     ![cluster_index_in_sector + 1] = 0,
                                     ![cluster_index_in_sector + 2] = 0]

\* lines 217-220
clear_fat_slot(current_fat_table_sector, cluster_index_in_sector) ==
    [current_fat_table_sector EXCEPT ![cluster_index_in_sector] = 0,
                                     ![cluster_index_in_sector + 1] = 0,
                                     ![cluster_index_in_sector + 2] = 0,
                                     ![cluster_index_in_sector + 3] = 0]

FreeCluster ==
    /\ pc = "free_fat_chain"
    /\ ~file_deleted_from_fat_table
    /\ LET location ==
               calculate_fat_sector_offset_from_cluster_number(current_cluster_number,
                                                               <<0, 0, 0, 0>>)
           cluster_index_in_sector == location.index
           sector_number_offset_from_fat_begin ==
               add_4_byte_numbers(fat_begin_lba, location.fat_sector_offset)
           current_fat_table_sector ==
               send_cmd17(disk, ZeroSector, sector_number_offset_from_fat_begin).block
           data_stored_at_cluster_index ==
               << current_fat_table_sector[cluster_index_in_sector + 3],
                  current_fat_table_sector[cluster_index_in_sector + 2],
                  current_fat_table_sector[cluster_index_in_sector + 1],
                  current_fat_table_sector[cluster_index_in_sector] >>
       IN  /\ disk' = send_cmd24(disk,
                                 clear_fat_slot(current_fat_table_sector,
                                                cluster_index_in_sector),
                                 sector_number_offset_from_fat_begin)
           /\ io_log' = Record(Record(io_log, LogRead(sector_number_offset_from_fat_begin)),
                               LogWrite(sector_number_offset_from_fat_begin))
           /\ freed_clusters' = freed_clusters \cup { current_cluster_number }
           /\ IF is_end_of_chain(data_stored_at_cluster_index)
              THEN /\ file_deleted_from_fat_table' = TRUE
                   /\ UNCHANGED current_cluster_number
              ELSE /\ current_cluster_number' = data_stored_at_cluster_index
                   /\ UNCHANGED file_deleted_from_fat_table
    /\ UNCHANGED << card, volume, device, translation, uninit_byte, pc, engine, mbr_result, volume_id_result, call_stack,
                    request, entry_index, enclosing_directory_sector_address, directory_sector,
                    end_of_directory_found, file_found_in_directory, result, calls, history,
                    disk_at_call, entrys_at_call >>

(***************************************************************************)
(* delete_file, step 3 (lines 257-392).                                    *)
(***************************************************************************)
\* lines 257-279: the address of the enclosing directory, its first sector
BeginTombstone ==
    /\ pc = "free_fat_chain"
    /\ file_deleted_from_fat_table
    /\ LET files_enclosing_directory == Entry(entry_index).parent_directory
           address ==
               IF files_enclosing_directory = NullPtr
               THEN calculate_sector_address_from_cluster_number(
                        fat_32_volume_id.root_directory_first_cluster,
                        fat_32_volume_id.sectors_per_cluster, cluster_begin_lba)
               ELSE calculate_sector_address_from_cluster_number(
                        Entry(files_enclosing_directory).starting_cluster_address,
                        fat_32_volume_id.sectors_per_cluster, cluster_begin_lba)
       IN  /\ enclosing_directory_sector_address' = address
           /\ directory_sector' = send_cmd17(disk, ZeroSector, address).block
           /\ io_log' = Record(io_log, LogRead(address))
    /\ end_of_directory_found' = FALSE
    /\ file_found_in_directory' = FALSE
    /\ pc' = "tombstone"
    /\ UNCHANGED << card, volume, device, translation, disk, uninit_byte, engine, mbr_result, volume_id_result, call_stack,
                    request, entry_index, file_deleted_from_fat_table, current_cluster_number,
                    ghosts >>

\* lines 346-353: whether the j loop makes the i loop pass over the entry.
\* Its `continue` belongs to the j loop itself, so it never does.
name_loop_skips_entry(sector, i, entry) == FALSE

\* lines 355-358
cluster_differs(sector, i, entry) ==
    \/ sector[i * bytes_per_entry + 21] # entry.starting_cluster_address[1]
    \/ sector[i * bytes_per_entry + 20] # entry.starting_cluster_address[2]
    \/ sector[i * bytes_per_entry + 27] # entry.starting_cluster_address[3]
    \/ sector[i * bytes_per_entry + 26] # entry.starting_cluster_address[4]

\* lines 365-367
tombstone_entry(sector, i) ==
    [sector EXCEPT ![i * bytes_per_entry + 21] = 0,
                   ![i * bytes_per_entry + 20] = 0,
                   ![i * bytes_per_entry] = 229]

\* lines 283-374: the for loop from entry i on; st holds the buffer, the
\* card, both flags and the block commands issued.  No pass leaves the loop
\* after a match.
RECURSIVE tombstone_for_loop(_, _, _, _)
tombstone_for_loop(i, st, entry, address) ==
    IF i >= directory_entrys_per_sector
    THEN st
    ELSE IF st.directory_sector[i * bytes_per_entry] = 0
    THEN [st EXCEPT !.end_of_directory_found = TRUE]
    ELSE IF \/ IsIgnoredEntry(st.directory_sector, i)
            \/ st.directory_sector[i * bytes_per_entry + attribute_byte_offset]
                   # entry.attribute_byte
            \/ name_loop_skips_entry(st.directory_sector, i, entry)
            \/ cluster_differs(st.directory_sector, i, entry)
    THEN tombstone_for_loop(i + 1, st, entry, address)
    ELSE LET written == tombstone_entry(st.directory_sector, i)
         IN  tombstone_for_loop(i + 1,
                                [st EXCEPT !.directory_sector = written,
                                           !.disk = send_cmd24(st.disk, written, address),
                                           !.io_log = Record(st.io_log, LogWrite(address)),
                                           !.file_found_in_directory = TRUE],
                                entry, address)

\* lines 281-392: one pass of the while loop
ScanDirectorySector ==
    /\ pc = "tombstone"
    /\ ~end_of_directory_found
    /\ LET st == tombstone_for_loop(0,
                                    [directory_sector |-> directory_sector,
                                     disk |-> disk,
                                     io_log |-> io_log,
                                     end_of_directory_found |-> end_of_directory_found,
                                     file_found_in_directory |-> file_found_in_directory],
                                    Entry(entry_index), enclosing_directory_sector_address)
           next == add_4_byte_numbers(<<0, 0, 0, 1>>, enclosing_directory_sector_address)
       IN  /\ disk' = st.disk
           /\ end_of_directory_found' = st.end_of_directory_found
           /\ file_found_in_directory' = st.file_found_in_directory
           /\ IF st.file_found_in_directory \/ st.end_of_directory_found
              THEN /\ directory_sector' = st.directory_sector
                   /\ io_log' = st.io_log
                   /\ pc' = "return"
                   /\ UNCHANGED enclosing_directory_sector_address
              ELSE /\ enclosing_directory_sector_address' = next
                   /\ directory_sector' = send_cmd17(st.disk, st.directory_sector, next).block
                   /\ io_log' = Record(st.io_log, LogRead(next))
                   /\ UNCHANGED pc
    /\ UNCHANGED << card, volume, device, translation, uninit_byte, engine, mbr_result, volume_id_result, call_stack,
                    request, entry_index, file_deleted_from_fat_table, current_cluster_number,
                    ghosts >>

\* the return also marking the element deleted in the index
ReturnFromDeleteFile_marking_element ==
    /\ pc = "return"
    /\ result' = file_found_in_directory
    /\ history' = Append(history, [request |-> request, entry_index |-> entry_index,
                                   result |-> file_found_in_directory])
    /\ pc' = "ready"
    /\ file_system_entrys' =
           [file_system_entrys EXCEPT ![entry_index + 1].entry_in_use = ~file_found_in_directory]
    /\ UNCHANGED << card, volume, device, translation, disk, uninit_byte, fat_32_master_boot_record, fat_32_volume_id,
                    fat_begin_lba, cluster_begin_lba, file_systems_entry_index, mbr_result,
                    volume_id_result, call_stack, delete_locals, io_log, calls, disk_at_call,
                    entrys_at_call, freed_clusters >>

\* line 395
ReturnFromDeleteFile ==
    /\ pc = "return"
    /\ result' = file_found_in_directory
    /\ history' = Append(history, [request |-> request, entry_index |-> entry_index,
                                   result |-> file_found_in_directory])
    /\ pc' = "ready"
    /\ UNCHANGED << card, volume, device, translation, disk, uninit_byte, engine, mbr_result, volume_id_result, call_stack,
                    delete_locals, io_log, calls, disk_at_call, entrys_at_call,
                    freed_clusters >>

Next ==
    \/ ReadMasterBootRecord
    \/ ReadVolumeId
    \/ DeriveGeometry
    \/ ScanEntry
    \/ NextSector
    \/ CallDeleteFile
    \/ FreeCluster
    \/ BeginTombstone
    \/ ScanDirectorySector
    \/ ReturnFromDeleteFile

Spec == Init /\ [][Next]_vars

(***************************************************************************)
(* The same program on a card that may fail block commands: before a boot  *)
(* read and between two calls of delete_file the card may start to fail    *)
(* the reads, or the writes, of one sector (no valid response within the   *)
(* retry limit of SDCard::send_cmd17), or stop failing.  The sectors are   *)
(* those the volumes keep their boot sectors, primary FAT and root         *)
(* directory in; the volumes are those laid out on the first sectors of    *)
(* the card with few requests.                                             *)
(***************************************************************************)
FaultSectors == { 0, 1, 2, 4 }

FaultVolumes == { "two_sector", "bad_type", "bad_mbr_signature", "bad_volume_id_signature" }

FaultChoices ==
    { NoFault } \cup { [op |-> o, sector |-> l] : o \in { "read", "write" }, l \in FaultSectors }

DeviceFault ==
    /\ faults_left > 0
    /\ pc \in { "read_mbr", "read_volume_id", "ready" }
    /\ \E f \in FaultChoices :
          /\ f # device_fault
          /\ device_fault' = f
    /\ faults_left' = faults_left - 1
    /\ UNCHANGED << card, volume, disk, uninit_byte, pc, engine, mbr_result, volume_id_result,
                    call_stack, delete_locals, io_log, ghosts, translation >>

FaultInit ==
    /\ ProgramInit
    /\ volume \in FaultVolumes
    /\ device_fault = NoFault
    /\ faults_left = MaxFaults
    /\ NoTranslation

FaultNext == Next \/ DeviceFault

FaultSpec == FaultInit /\ [][FaultNext]_vars

(***************************************************************************)
(* The two translators on their own: each is a function of its argument    *)
(* and of the members sectors_per_cluster and cluster_begin_lba, called    *)
(* here on a range of arguments without the rest of the program running.   *)
(***************************************************************************)
FromLow16(v) == << 0, 0, v \div 256, v % 256 >>

TranslatedClusters ==
    { FromLow16(n) : n \in 0..MaxCluster }
    \cup { FromLow16(127 * k) : k \in 1..8 }
    \cup { FromLow16(128 * k) : k \in 1..8 }
    \cup { FromLow16(1000) }
    \cup { FromLow16(997 * k) : k \in { 2, 3, 5, 9, 17, 33, 65 } }
    \cup { <<0, 1, 0, 0>>, <<1, 0, 0, 1>>, <<255, 255, 255, 255>> }

TranslationInputs ==
    [cluster_number : TranslatedClusters,
     sectors_per_cluster : { 1, 8, 255 },
     cluster_begin_lba : { <<0, 0, 0, 4>>, <<0, 0, 15, 176>>, <<255, 255, 255, 0>> }]

\* calculate_sector_address_from_cluster_number(cluster_number, result)
TranslateSectorAddress ==
    /\ pc = "translate"
    /\ translation_output.sector_address = << >>
    /\ translation_output' =
           [translation_output EXCEPT
               !.sector_address =
                   calculate_sector_address_from_cluster_number(
                       translation_input.cluster_number,
                       translation_input.sectors_per_cluster,
                       translation_input.cluster_begin_lba)]
    /\ UNCHANGED << card, volume, device, translation_input, addition, disk, uninit_byte, pc, engine, mbr_result,
                    volume_id_result, call_stack, delete_locals, io_log, ghosts >>

\* calculate_fat_sector_offset_from_cluster_number(cluster_number, offset, index)
\* with the accumulator offset = {0, 0, 0, 0}
TranslateFatSectorOffset ==
    /\ pc = "translate"
    /\ translation_output.fat_sector_offset = << >>
    /\ LET location ==
               calculate_fat_sector_offset_from_cluster_number(
                   translation_input.cluster_number, <<0, 0, 0, 0>>)
       IN  translation_output' =
               [translation_output EXCEPT !.fat_sector_offset = location.fat_sector_offset,
                                          !.index = location.index]
    /\ UNCHANGED << card, volume, device, translation_input, addition, disk, uninit_byte, pc, engine, mbr_result,
                    volume_id_result, call_stack, delete_locals, io_log, ghosts >>

ArithInit ==
    /\ SDCardConstructed
    /\ volume = "tree"
    /\ uninit_byte = 0
    /\ pc = "translate"
    /\ ObjectInit
    /\ device_fault = NoFault
    /\ faults_left = 0
    /\ translation_input \in TranslationInputs
    /\ addition = NoAddition
    /\ translation_output =
           [sector_address |-> << >>, fat_sector_offset |-> << >>, index |-> -1]

ArithNext == TranslateSectorAddress \/ TranslateFatSectorOffset

ArithSpec == ArithInit /\ [][ArithNext]_vars

(***************************************************************************)
(* add_4_byte_numbers on its own, statement by statement on the arrays its *)
(* three reference parameters are bound to.  The result may be bound to    *)
(* the array of either operand (the constructor adds into                  *)
(* total_fat_sectors, the directory scans into the sector address), and    *)
(* both operands to one array.  A slot is a uint16_t.                      *)
(***************************************************************************)
\* the statements for slot k of the result (lines 564-571, 573-580, 582-589,
\* 592-598): the sum with the carry of the slot before, stored in the
\* result, then reduced by 256 when it exceeds 0xFF
add_slot(st, k) ==
    LET sum == (st.memory[st.number_1][k + 1] + st.memory[st.number_2][k + 1] + st.carry)
                   % 65536
        stored == [st EXCEPT !.memory[st.result][k + 1] = sum]
    IN  IF stored.memory[st.result][k + 1] > 255
        THEN [stored EXCEPT !.memory[st.result][k + 1] = @ - 256, !.carry = 1]
        ELSE [stored EXCEPT !.carry = 0]

\* the addition on a result array set to zero before the first statement
add_4_byte_numbers_on_cleared_result(memory, number_1, number_2, result_array) ==
    add_slot(add_slot(add_slot(add_slot(
        [memory |-> [memory EXCEPT ![result_array] = <<0, 0, 0, 0>>], number_1 |-> number_1,
         number_2 |-> number_2, result |-> result_array, carry |-> 0], 3), 2), 1), 0).memory

\* the arrays after add_4_byte_numbers(number_1, number_2, result_array)
add_4_byte_numbers_on(memory, number_1, number_2, result_array) ==
    add_slot(add_slot(add_slot(add_slot(
        [memory |-> memory, number_1 |-> number_1, number_2 |-> number_2,
         result |-> result_array, carry |-> 0], 3), 2), 1), 0).memory

AddedNumbers ==
    { <<0, 0, 0, 0>>, <<0, 0, 0, 1>>, <<0, 0, 0, 255>>, <<0, 0, 1, 0>>, <<0, 0, 255, 255>>,
      <<0, 1, 0, 0>>, <<0, 255, 255, 255>>, <<1, 2, 3, 4>>, <<127, 255, 255, 255>>,
      <<128, 0, 0, 0>>, <<200, 100, 200, 100>>, <<255, 0, 255, 0>>, <<255, 255, 255, 255>> }

\* the arrays x, y and z, number_1 bound to x, number_2 to x or y, the result
\* to any of the three
AdditionInputs ==
    { [memory |-> [a \in {"x", "y", "z"} |->
                      IF a = "x" THEN x ELSE IF a = "y" THEN y ELSE <<0, 0, 0, 0>>],
       number_1 |-> "x", number_2 |-> n2, result |-> r,
       operand_1 |-> x, operand_2 |-> IF n2 = "x" THEN x ELSE y, returned |-> FALSE] :
          x \in AddedNumbers, y \in AddedNumbers, n2 \in {"x", "y"}, r \in {"x", "y", "z"} }

AddFourByteNumbers ==
    /\ pc = "add"
    /\ ~addition.returned
    /\ addition' =
           [addition EXCEPT
               !.memory = add_4_byte_numbers_on(addition.memory, addition.number_1,
                                                addition.number_2, addition.result),
               !.returned = TRUE]
    /\ UNCHANGED << card, volume, device, translation_input, translation_output, disk,
                    uninit_byte, pc, engine, mbr_result, volume_id_result, call_stack,
                    delete_locals, io_log, ghosts >>

AddInit ==
    /\ SDCardConstructed
    /\ volume = "tree"
    /\ uninit_byte = 0
    /\ pc = "add"
    /\ ObjectInit
    /\ device_fault = NoFault
    /\ faults_left = 0
    /\ translation_input =
           [cluster_number |-> <<0, 0, 0, 0>>, sectors_per_cluster |-> 0,
            cluster_begin_lba |-> <<0, 0, 0, 0>>]
    /\ translation_output =
           [sector_address |-> << >>, fat_sector_offset |-> << >>, index |-> -1]
    /\ addition \in AdditionInputs

AddNext == AddFourByteNumbers

AddSpec == AddInit /\ [][AddNext]_vars



(***************************************************************************)
(* SDCard: the members the two getters return, and initialize_sd_card.     *)
(***************************************************************************)
\* the n-th SPI_read(SPI1) after a command: the bytes the card sends, 0xFF
\* once it has nothing more to say
SPI_read(stream, n) == IF n <= Len(stream) THEN stream[n] ELSE 255

\* what a card may send after a command: no, nine or ten idle bytes (0xFF)
\* and then its answer
IdleBytes == { 0, NUM_INVALID_RESPONSE_LIMIT_SPI_READ - 1, NUM_INVALID_RESPONSE_LIMIT_SPI_READ }

Answers(tails) == { [j \in 1..k |-> 255] \o t : k \in IdleBytes, t \in tails }

R1Answers == Answers({ <<1>>, <<0>>, <<5>> })

Cmd8Answers ==
    Answers({ <<1, 0, 0, 1, 170>>, <<1, 0, 0, 1, 171>>, <<1, 0, 0, 2, 170>>, <<5>>, <<13>>,
              <<0>> })

Cmd58Answers ==
    Answers({ <<1, 192, 255, 128, 0>>, <<0, 192, 255, 128, 0>>, <<0, 128, 255, 128, 0>>,
              <<1, 0, 255, 0, 0>>, <<0, 64, 0, 128, 0>>, <<5>>, <<13>> })

\* the for loops of the five senders, from pass i on: the response, and the
\* number of SPI_read calls made waiting for it
Sent(response, spi_reads) == [response |-> response, spi_reads |-> spi_reads]

RECURSIVE send_cmd0(_, _)
send_cmd0(stream, i) ==
    IF ~(i < NUM_INVALID_RESPONSE_LIMIT_SPI_READ) THEN Sent(SD_CARD_NO_RESPONSE, i)
    ELSE IF SPI_read(stream, i + 1) = SD_CARD_IN_IDLE_MODE_RESPONSE
    THEN Sent(SD_CARD_IN_IDLE_MODE_RESPONSE, i + 1)
    ELSE send_cmd0(stream, i + 1)

RECURSIVE send_cmd8(_, _)
send_cmd8(stream, i) ==
    IF ~(i < NUM_INVALID_RESPONSE_LIMIT_SPI_READ) THEN Sent(SD_CARD_NO_RESPONSE, i)
    ELSE LET spi_read_value == SPI_read(stream, i + 1)
             spi_read_voltage_range_supported == SPI_read(stream, i + 4)
             spi_read_repeated_check_pattern == SPI_read(stream, i + 5)
         IN  IF spi_read_value = SD_CARD_IN_IDLE_MODE_RESPONSE
             THEN IF spi_read_voltage_range_supported # 1
                  THEN Sent(SD_CARD_UNSUPPORTED_VOLTAGE, i + 1)
                  ELSE IF spi_read_repeated_check_pattern # 170
                  THEN Sent(SD_CARD_CHECK_PATTERN_ERROR, i + 1)
                  ELSE Sent(SD_CARD_RESPONSE_ACCEPTED, i + 1)
             ELSE IF spi_read_value = SD_CARD_ILLEGAL_COMMAND
             THEN Sent(SD_CARD_ILLEGAL_COMMAND, i + 1)
             ELSE IF spi_read_value = SD_CARD_ILLEGAL_COMMAND_AND_CRC_ERROR
             THEN Sent(SD_CARD_ILLEGAL_COMMAND_AND_CRC_ERROR, i + 1)
             ELSE send_cmd8(stream, i + 1)

\* the response, and ocr_register_contents as the call leaves it
RECURSIVE send_cmd58(_, _, _)
send_cmd58(stream, i, expected_in_idle) ==
    IF ~(i < NUM_INVALID_RESPONSE_LIMIT_SPI_READ)
    THEN [response |-> SD_CARD_NO_RESPONSE, spi_reads |-> i,
          ocr_register_contents |-> sd_card_information.ocr_register_contents]
    ELSE LET spi_read_value == SPI_read(stream, i + 1)
             ocr == << SPI_read(stream, i + 2), SPI_read(stream, i + 3),
                       SPI_read(stream, i + 4), SPI_read(stream, i + 5) >>
         IN  IF /\ spi_read_value = SD_CARD_ILLEGAL_COMMAND
                /\ sd_card_information.sd_card_version = VER_1
             THEN [response |-> SD_CARD_ILLEGAL_COMMAND, spi_reads |-> i + 1,
                   ocr_register_contents |-> sd_card_information.ocr_register_contents]
             ELSE IF /\ spi_read_value = SD_CARD_ILLEGAL_COMMAND_AND_CRC_ERROR
                     /\ sd_card_information.sd_card_version = VER_1
             THEN [response |-> SD_CARD_ILLEGAL_COMMAND_AND_CRC_ERROR, spi_reads |-> i + 1,
                   ocr_register_contents |-> sd_card_information.ocr_register_contents]
             ELSE IF \/ spi_read_value = SD_CARD_IN_IDLE_MODE_RESPONSE /\ expected_in_idle
                     \/ spi_read_value = SD_CARD_NOT_IN_IDLE_MODE_RESPONSE /\ ~expected_in_idle
             THEN [response |-> IF ocr[2] = 255 /\ ocr[3] = 128
                                THEN SD_CARD_RESPONSE_ACCEPTED
                                ELSE SD_CARD_UNSUPPORTED_VOLTAGE,
                   spi_reads |-> i + 1,
                   ocr_register_contents |-> ocr]
             ELSE send_cmd58(stream, i + 1, expected_in_idle)

RECURSIVE send_cmd55(_, _)
send_cmd55(stream, i) ==
    IF ~(i < NUM_INVALID_RESPONSE_LIMIT_SPI_READ) THEN Sent(SD_CARD_NO_RESPONSE, i)
    ELSE IF \/ SPI_read(stream, i + 1) = SD_CARD_IN_IDLE_MODE_RESPONSE
            \/ SPI_read(stream, i + 1) = SD_CARD_NOT_IN_IDLE_MODE_RESPONSE
    THEN Sent(SD_CARD_RESPONSE_ACCEPTED, i + 1)
    ELSE send_cmd55(stream, i + 1)

RECURSIVE send_acmd41(_, _)
send_acmd41(stream, i) ==
    IF ~(i < NUM_INVALID_RESPONSE_LIMIT_SPI_READ) THEN Sent(SD_CARD_NO_RESPONSE, i)
    ELSE IF SPI_read(stream, i + 1) = SD_CARD_IN_IDLE_MODE_RESPONSE
    THEN Sent(SD_CARD_IN_IDLE_MODE_RESPONSE, i + 1)
    ELSE IF SPI_read(stream, i + 1) = SD_CARD_NOT_IN_IDLE_MODE_RESPONSE
    THEN Sent(SD_CARD_NOT_IN_IDLE_MODE_RESPONSE, i + 1)
    ELSE send_acmd41(stream, i + 1)

\* the do-while loop of the block read send_cmd17 (lines 451-471), entered
\* with n bytes read: the wait for the data token 0xFE
RECURSIVE send_cmd17_wait(_, _, _)
send_cmd17_wait(stream, n, num_invalid_reads) ==
    IF SPI_read(stream, n + 1) = SD_CARD_RESPONSE_ACCEPTED
    THEN Sent(SD_CARD_RESPONSE_ACCEPTED, n + 1)
    ELSE IF num_invalid_reads + 1 > NUM_INVALID_RESPONSE_LIMIT_SPI_READ
    THEN Sent(SD_CARD_NO_RESPONSE, n + 1)
    ELSE send_cmd17_wait(stream, n + 1, num_invalid_reads + 1)

\* what a card may send after CMD17: idle bytes and the data token, or a
\* token it never sends
Cmd17Answers == Answers({ <<254>>, << >> })

\* the command sent last: which, its response, the bytes read waiting
Command(name, sent) ==
    [command |-> name, response |-> sent.response, spi_reads |-> sent.spi_reads]

\* a return statement of initialize_sd_card: the value goes to the caller
ReturnFromInitialize(value) ==
    /\ sd_pc' = "returned"
    /\ init_returned' = Append(init_returned, value)

program == << volume, disk, uninit_byte, pc, engine, mbr_result, volume_id_result, call_stack,
              delete_locals, io_log, ghosts, device, translation >>

\* main(), line 34, and any later call
CallInitialize ==
    /\ sd_pc \in { "constructed", "returned" }
    /\ Len(init_returned) < MaxInitCalls
    /\ sd_pc' = "cmd0"
    /\ cmd0_sent' = 0
    /\ acmd41_sent' = 0
    /\ UNCHANGED << program, initialization_result, sd_card_information, init_returned,
                    last_command >>

\* lines 56-77: one pass of the CMD0 loop, and the early return after it
SendCmd0 ==
    /\ sd_pc = "cmd0"
    /\ \E stream \in R1Answers :
          LET cmd0_response == send_cmd0(stream, 0).response
          IN  /\ last_command' = Command("CMD0", send_cmd0(stream, 0))
              /\ IF cmd0_response = SD_CARD_IN_IDLE_MODE_RESPONSE
                 THEN sd_pc' = "cmd8" /\ UNCHANGED init_returned
                 ELSE IF cmd0_sent + 1 < max_number_cmd0_commands_sent
                 THEN UNCHANGED << sd_pc, init_returned >>
                 ELSE ReturnFromInitialize(INIT_FAILED_ON_CMD0)
    /\ cmd0_sent' = cmd0_sent + 1
    /\ UNCHANGED << program, initialization_result, sd_card_information, acmd41_sent >>

\* lines 79-103
SendCmd8 ==
    /\ sd_pc = "cmd8"
    /\ \E stream \in Cmd8Answers :
          LET cmd8_response == send_cmd8(stream, 0).response
          IN  /\ last_command' = Command("CMD8", send_cmd8(stream, 0))
              /\ IF cmd8_response = SD_CARD_RESPONSE_ACCEPTED
                 THEN /\ sd_card_information' =
                             [sd_card_information EXCEPT !.sd_card_version = VER_2]
                      /\ sd_pc' = "cmd58_idle"
                      /\ UNCHANGED init_returned
                 ELSE IF \/ cmd8_response = SD_CARD_ILLEGAL_COMMAND
                         \/ cmd8_response = SD_CARD_ILLEGAL_COMMAND_AND_CRC_ERROR
                 THEN /\ sd_card_information' =
                             [sd_card_information EXCEPT !.sd_card_version = VER_1]
                      /\ sd_pc' = "cmd58_idle"
                      /\ UNCHANGED init_returned
                 ELSE /\ ReturnFromInitialize(INIT_FAILED_ON_CMD8)
                      /\ UNCHANGED sd_card_information
    /\ UNCHANGED << program, initialization_result, cmd0_sent, acmd41_sent >>

\* lines 112-129 and 183-199: the three responses that end the call
cmd58_failed(cmd58_response) ==
    \/ cmd58_response = SD_CARD_ILLEGAL_COMMAND
    \/ cmd58_response = SD_CARD_ILLEGAL_COMMAND_AND_CRC_ERROR
    \/ cmd58_response = SD_CARD_UNSUPPORTED_VOLTAGE
    \/ cmd58_response = SD_CARD_NO_RESPONSE

\* lines 105-134: CMD58 with the card expected idle
SendCmd58InIdle ==
    /\ sd_pc = "cmd58_idle"
    /\ \E stream \in Cmd58Answers :
          LET cmd58 == send_cmd58(stream, 0, TRUE)
          IN  /\ last_command' = Command("CMD58", cmd58)
              /\ sd_card_information' =
                     [sd_card_information EXCEPT
                         !.ocr_register_contents = cmd58.ocr_register_contents]
              /\ IF cmd58_failed(cmd58.response)
                 THEN ReturnFromInitialize(INIT_FAILED_ON_CMD58)
                 ELSE sd_pc' = "cmd55" /\ UNCHANGED init_returned
    /\ UNCHANGED << program, initialization_result, cmd0_sent, acmd41_sent >>

\* lines 140-155: CMD55 at the head of the do-while loop
SendCmd55 ==
    /\ sd_pc = "cmd55"
    /\ \E stream \in R1Answers :
          /\ last_command' = Command("CMD55", send_cmd55(stream, 0))
          /\ IF send_cmd55(stream, 0).response = SD_CARD_NO_RESPONSE
             THEN ReturnFromInitialize(INIT_FAILED_ON_CMD55)
             ELSE sd_pc' = "acmd41" /\ UNCHANGED init_returned
    /\ UNCHANGED << program, initialization_result, sd_card_information, cmd0_sent,
                    acmd41_sent >>

\* lines 157-176, then lines 180-185 for a version 1 card once the loop ends
SendAcmd41 ==
    /\ sd_pc = "acmd41"
    /\ \E stream \in R1Answers :
          LET acmd41_response == send_acmd41(stream, 0).response
          IN  /\ last_command' = Command("ACMD41", send_acmd41(stream, 0))
              /\ IF acmd41_response = SD_CARD_NOT_IN_IDLE_MODE_RESPONSE
                 THEN IF sd_card_information.sd_card_version = VER_1
                      THEN /\ sd_card_information' =
                                  [sd_card_information EXCEPT !.sd_card_standard = SDSC]
                           /\ ReturnFromInitialize(INIT_SUCCESS)
                      ELSE IF sd_card_information.sd_card_version = VER_2
                      THEN /\ sd_pc' = "cmd58_ready"
                           /\ UNCHANGED << sd_card_information, init_returned >>
                      ELSE /\ ReturnFromInitialize(INIT_SUCCESS)
                           /\ UNCHANGED sd_card_information
                 ELSE IF acmd41_response = SD_CARD_NO_RESPONSE
                 THEN /\ ReturnFromInitialize(INIT_FAILED_ON_ACMD41)
                      /\ UNCHANGED sd_card_information
                 ELSE /\ sd_pc' = "cmd55"
                      /\ UNCHANGED << sd_card_information, init_returned >>
    /\ acmd41_sent' = IF acmd41_sent < MaxAcmd41 THEN acmd41_sent + 1 ELSE MaxAcmd41
    /\ UNCHANGED << program, initialization_result, cmd0_sent >>

\* lines 186-218: CMD58 of a version 2 card that has left the idle state
SendCmd58Ready ==
    /\ sd_pc = "cmd58_ready"
    /\ \E stream \in Cmd58Answers :
          LET cmd58 == send_cmd58(stream, 0, FALSE)
          IN  /\ last_command' = Command("CMD58", cmd58)
              /\ IF cmd58_failed(cmd58.response)
                 THEN /\ sd_card_information' =
                             [sd_card_information EXCEPT
                                 !.ocr_register_contents = cmd58.ocr_register_contents]
                      /\ ReturnFromInitialize(INIT_FAILED_ON_CMD58)
                 ELSE /\ sd_card_information' =
                             [sd_card_information EXCEPT
                                 !.ocr_register_contents = cmd58.ocr_register_contents,
                                 !.sd_card_standard =
                                     IF Bit(cmd58.ocr_register_contents[1], 6)
                                     THEN SDHC_OR_SDXC ELSE SDSC]
                      /\ ReturnFromInitialize(INIT_SUCCESS)
    /\ UNCHANGED << program, initialization_result, cmd0_sent, acmd41_sent >>

\* a block read once initialize_sd_card has returned (main.cpp:38 constructs
\* the FileSystem whatever it returned): SDCard::send_cmd17 up to the data
\* token
SendCmd17 ==
    /\ sd_pc = "returned"
    /\ \E stream \in Cmd17Answers :
          last_command' = Command("CMD17", send_cmd17_wait(stream, 0, 0))
    /\ UNCHANGED << program, initialization_result, sd_card_information, sd_pc, cmd0_sent,
                    acmd41_sent, init_returned >>

\* SDCard::get_initialization_result and SDCard::get_sd_card_information
get_initialization_result == initialization_result

get_sd_card_information == sd_card_information

\* main() up to the construction of the FileSystem object
CardInit ==
    /\ volume = "tree"
    /\ uninit_byte = 0
    /\ pc = "initialize_sd_card"
    /\ ObjectInit
    /\ device_fault = NoFault
    /\ faults_left = 0
    /\ NoTranslation
    /\ SDCardConstructed

CardNext ==
    \/ CallInitialize
    \/ SendCmd0
    \/ SendCmd8
    \/ SendCmd58InIdle
    \/ SendCmd55
    \/ SendAcmd41
    \/ SendCmd58Ready
    \/ SendCmd17

CardSpec == CardInit /\ [][CardNext]_vars

\* a step of a call of initialize_sd_card that has not returned
InitializeStep ==
    \/ SendCmd0
    \/ SendCmd8
    \/ SendCmd58InIdle
    \/ SendCmd55
    \/ SendAcmd41
    \/ SendCmd58Ready

\* the processor goes on executing a call in progress
CardLiveSpec == CardSpec /\ WF_vars(InitializeStep)


(***************************************************************************)
(* Vocabulary of the properties, written from the on-disk layout and the   *)
(* index, not from the operators of delete_file.                           *)
(***************************************************************************)
\* a delete_file call has been made and has returned
Returned == pc = "ready" /\ calls > 0

\* the call in progress, or the last one, passed resolution
Resolved == calls > 0 /\ entry_index # -1

\* the j-th ancestor of element i (its parent for j = 0), NullPtr when the
\* chain has ended before
RECURSIVE AncestorOf(_, _)
AncestorOf(i, j) ==
    IF j = 0
    THEN Entry(i).parent_directory
    ELSE IF AncestorOf(i, j - 1) = NullPtr
    THEN NullPtr
    ELSE Entry(AncestorOf(i, j - 1)).parent_directory

\* element i has the requested name and exactly the requested ancestors
Designates(req, i) ==
    /\ Entry(i).name_of_entry = req.file_name
    /\ \A j \in 0..(req.num_enclosing_directories - 1) :
          /\ AncestorOf(i, j) # NullPtr
          /\ Entry(AncestorOf(i, j)).name_of_entry = req.enclosing_directory_names[j + 1]
    /\ AncestorOf(i, req.num_enclosing_directories) = NullPtr
    /\ (req.num_enclosing_directories > 0 =>
            AncestorOf(i, req.num_enclosing_directories - 1) # NullPtr)

ArenaIndices == 0..(total_directory_entries - 1)

\* the primary-FAT entry of cluster c (a number below 128 * sectors per FAT),
\* most significant byte first
FatEntry(dsk, c) ==
    LET sector == dsk[SectorNumber(fat_begin_lba) + c \div 128]
        k == (c % 128) * 4
    IN  << sector[k + 3], sector[k + 2], sector[k + 1], sector[k] >>

\* clusters that have a slot in the one-sector primary FAT of the volumes
FatClusters == 0..127

\* FAT32 end-of-chain: low 28 bits in 0xFFFFFF8..0xFFFFFFF
EndOfChainValue(v) == v[1] % 16 = 15 /\ v[2] = 255 /\ v[3] = 255 /\ v[4] >= 248

ClusterNumber(v) == v[3] * 256 + v[4]

\* the clusters of the chain that starts at cluster c in dsk, followed for at
\* most n links; << >> when it leaves the clusters >= 2 of the FAT or does
\* not end within n links
RECURSIVE ChainFrom(_, _, _)
ChainFrom(dsk, c, n) ==
    IF n = 0 \/ c < 2 \/ c \notin FatClusters
    THEN << >>
    ELSE LET v == FatEntry(dsk, c)
         IN  IF EndOfChainValue(v)
             THEN << c >>
             ELSE IF v[1] # 0 \/ v[2] # 0 \/ ChainFrom(dsk, ClusterNumber(v), n - 1) = << >>
             THEN << >>
             ELSE << c >> \o ChainFrom(dsk, ClusterNumber(v), n - 1)

SeqRange(q) == { q[k] : k \in 1..Len(q) }

\* the chain c1 -> ... -> ck -> end-of-chain of element i in dsk: all >= 2
\* and distinct; << >> when the element has no such chain
ChainOf(dsk, i) ==
    LET a == Entry(i).starting_cluster_address
        q == IF a[1] = 0 /\ a[2] = 0 THEN ChainFrom(dsk, ClusterNumber(a), 128) ELSE << >>
    IN  IF Cardinality(SeqRange(q)) = Len(q) THEN q ELSE << >>

\* the sectors of the data region of the card
DataSectors == { l \in DOMAIN disk : l >= SectorNumber(cluster_begin_lba) }

\* the first sector of cluster c >= 2
ClusterSector(c) ==
    SectorNumber(cluster_begin_lba) + (c - 2) * fat_32_volume_id.sectors_per_cluster

\* the 32 bytes of slot s of sector l
Slot(dsk, l, s) == [k \in 0..31 |-> dsk[l][bytes_per_entry * s + k]]

SlotName(dsk, l, s) == [k \in 1..11 |-> dsk[l][bytes_per_entry * s + k - 1]]

SlotAttribute(dsk, l, s) == dsk[l][bytes_per_entry * s + attribute_byte_offset]

SlotCluster(dsk, l, s) ==
    << dsk[l][bytes_per_entry * s + 21], dsk[l][bytes_per_entry * s + 20],
       dsk[l][bytes_per_entry * s + 27], dsk[l][bytes_per_entry * s + 26] >>

SlotIndices == 0..(directory_entrys_per_sector - 1)

\* the consecutive sectors of a directory that starts at sector l: up to and
\* including the first one that holds a terminator slot
RECURSIVE DirSectorsFrom(_, _)
DirSectorsFrom(dsk, l) ==
    IF l \notin DataSectors
    THEN {}
    ELSE IF \E s \in SlotIndices : dsk[l][bytes_per_entry * s] = 0
    THEN { l }
    ELSE { l } \cup DirSectorsFrom(dsk, l + 1)

\* the sectors of the directory that encloses element i, when the call began
HomeSectors(i) ==
    LET parent == Entry(i).parent_directory
        first == IF parent = NullPtr
                 THEN ClusterSector(ClusterNumber(fat_32_volume_id.root_directory_first_cluster))
                 ELSE ClusterSector(ClusterNumber(Entry(parent).starting_cluster_address))
    IN  DirSectorsFrom(disk_at_call, first)

\* the slots of that directory which carry the name of element i in dsk
HomeSlots(dsk, i) ==
    { ls \in HomeSectors(i) \X SlotIndices :
          SlotName(dsk, ls[1], ls[2]) = Entry(i).name_of_entry }

\* the slots of the data region that the call has changed so far
ChangedSlots ==
    { ls \in DataSectors \X SlotIndices :
          Slot(disk, ls[1], ls[2]) # Slot(disk_at_call, ls[1], ls[2]) }

\* slot ls matched element i in attribute, name and starting cluster when the
\* call began
SlotMatches(ls, i) ==
    /\ SlotAttribute(disk_at_call, ls[1], ls[2]) = Entry(i).attribute_byte
    /\ SlotName(disk_at_call, ls[1], ls[2]) = Entry(i).name_of_entry
    /\ SlotCluster(disk_at_call, ls[1], ls[2]) = Entry(i).starting_cluster_address

\* positions of io_log that touch the FAT region / the data region
IsDataSectorOp(k) == SectorNumber(io_log[k].lba) \in DataSectors
DirectoryWrites == { k \in 1..Len(io_log) : io_log[k].op = "write" /\ IsDataSectorOp(k) }
FatWrites == { k \in 1..Len(io_log) : io_log[k].op = "write" /\ ~IsDataSectorOp(k) }
DirectoryOps == { k \in 1..Len(io_log) : IsDataSectorOp(k) }

WellFormedVolume == volume \in { "tree", "two_sector" }

----------------------------------------------------------------------------
(***************************************************************************)
(* C1.  delete_file resolves to the lowest-index element of                *)
(* file_system_entrys[] whose 11-byte name equals file_name and whose      *)
(* ancestor chain is exactly the requested one (j-th ancestor exists and   *)
(* has the j-th requested name, then root); when no element verifies, it   *)
(* returns false.                                                          *)
(***************************************************************************)
C1_LowestVerifiedMatch ==
    calls > 0 =>
        IF \E i \in ArenaIndices : Designates(request, i)
        THEN /\ entry_index \in ArenaIndices
             /\ Designates(request, entry_index)
             /\ \A k \in 0..(entry_index - 1) : ~Designates(request, k)
        ELSE entry_index = -1 /\ pc = "ready" /\ result = FALSE

\* /DB/DA/F is resolved past /DA/F and /F, which carry the same name
C1_Witness ==
    /\ Returned
    /\ request.num_enclosing_directories = 2
    /\ entry_index >= 0
    /\ Cardinality({ k \in 0..(entry_index - 1) :
                        Entry(k).name_of_entry = request.file_name }) = 2

(***************************************************************************)
(* C4.  When the resolved file's FAT chain is c1 -> ... -> ck ->           *)
(* end-of-chain (all ci >= 2, distinct), then after delete_file has        *)
(* returned the primary-FAT slot of every ci is 0x00000000 and the slot of *)
(* every other cluster holds the value it had before the call.             *)
(***************************************************************************)
C4_ChainFreedOthersKept ==
    (Returned /\ Resolved /\ ChainOf(disk_at_call, entry_index) # << >>) =>
        \A c \in FatClusters :
            IF c \in SeqRange(ChainOf(disk_at_call, entry_index))
            THEN FatEntry(disk, c) = <<0, 0, 0, 0>>
            ELSE FatEntry(disk, c) = FatEntry(disk_at_call, c)

\* /F of the tree volume, chain 5 -> 7 -> 6, has been deleted
C4_Witness ==
    /\ Returned
    /\ Resolved
    /\ ChainOf(disk_at_call, entry_index) = << 5, 7, 6 >>
    /\ result = TRUE

(***************************************************************************)
(* C9.  delete_file changes no in-memory engine state: every step from the *)
(* call to the return leaves file_system_entrys[] and its index, the       *)
(* parsed MBR and volume descriptor, fat_begin_lba and cluster_begin_lba   *)
(* as they were.                                                           *)
(***************************************************************************)
C9_DeleteKeepsEngineState ==
    [][(pc \in { "ready", "free_fat_chain", "tombstone", "return" }) => (engine' = engine)]_vars

\* a call that did rewrite the card has returned true
C9_Witness ==
    /\ Returned
    /\ result = TRUE
    /\ disk # disk_at_call
    /\ file_system_entrys = entrys_at_call


(***************************************************************************)
(* C2.  (Stated for the well-formed volumes.)  Whenever delete_file        *)
(* returns true, the slot carrying the requested                           *)
(* name in the resolved parent directory has been rewritten with first     *)
(* byte 0xE5; whenever it passes resolution but reaches the terminator     *)
(* without rewriting a slot, it returns false.                             *)
(***************************************************************************)
C2_TrueMeansRequestedSlotTombstoned ==
    (WellFormedVolume /\ Returned /\ Resolved) =>
        /\ result = TRUE =>
              /\ HomeSlots(disk_at_call, entry_index) # {}
              /\ \A ls \in HomeSlots(disk_at_call, entry_index) :
                    disk[ls[1]][bytes_per_entry * ls[2]] = 229
        /\ DirectoryWrites = {} => result = FALSE

(***************************************************************************)
(* C3.  (Stated for the well-formed volumes.)  Step 3 tombstones the slot  *)
(* whose attribute, name and starting                                      *)
(* cluster all match the resolved element: no slot with another name is    *)
(* modified, also when it shares attribute and starting cluster with the   *)
(* target, and at most one slot is tombstoned per call.                    *)
(***************************************************************************)
C3_OnlyTheMatchingSlotTombstoned ==
    (WellFormedVolume /\ Resolved) =>
        /\ Cardinality(ChangedSlots) <= 1
        /\ \A ls \in ChangedSlots :
              /\ SlotMatches(ls, entry_index)
              /\ disk[ls[1]][bytes_per_entry * ls[2]] = 229

(***************************************************************************)
(* C5.  On a well-formed volume, deleting the same file twice with nothing *)
(* in between returns success the first time, and the second time          *)
(* resolution fails (NotFound): the index no longer lists the file.        *)
(***************************************************************************)
C5_SecondDeleteNotFound ==
    WellFormedVolume =>
        \A k \in 1..(Len(history) - 1) :
            (history[k].request = history[k + 1].request /\ history[k].entry_index # -1) =>
                /\ history[k].result = TRUE
                /\ history[k + 1].entry_index = -1
                /\ history[k + 1].result = FALSE

(***************************************************************************)
(* C6.  Of two files with the same 8.3 name in different directories, each *)
(* is deletable by its own chain of enclosing directories (the call        *)
(* returns true and tombstones that file's slot), and deleting one leaves  *)
(* the arena entry, the on-device slot and the FAT chain of the other      *)
(* unchanged.                                                              *)
(***************************************************************************)
Twins(i, k) ==
    /\ i # k
    /\ k < file_systems_entry_index
    /\ Entry(k).name_of_entry = Entry(i).name_of_entry
    /\ Entry(k).parent_directory # Entry(i).parent_directory
    /\ Entry(k).entry_type = FILE_ENTRY
    /\ Entry(i).entry_type = FILE_ENTRY

C7_FatFreedBeforeDirectoryNoRollback ==
    (WellFormedVolume /\ Resolved) =>
        /\ \A w \in FatWrites : \A d \in DirectoryOps : w < d
        /\ (pc \in { "tombstone", "return", "ready" }) =>
              \A c \in freed_clusters :
                  (c[1] = 0 /\ c[2] = 0 /\ ClusterNumber(c) \in FatClusters) =>
                      FatEntry(disk, ClusterNumber(c)) = <<0, 0, 0, 0>>
        /\ (Returned /\ ~file_found_in_directory) =>
              /\ result = FALSE
              /\ \E ls \in HomeSlots(disk, entry_index) :
                    SlotAttribute(disk, ls[1], ls[2]) = Entry(entry_index).attribute_byte

(***************************************************************************)
(* C8.  (Stated for the well-formed volumes.)  When step 3 finds the       *)
(* matching slot, the sector written back                                  *)
(* differs from the sector read only in that slot's byte 0 (0xE5) and      *)
(* bytes 20-21 (0x00): bytes 26-27, the other name bytes, the attribute,   *)
(* the size and every other slot are written back unchanged.               *)
(***************************************************************************)
C8_WriteBackChangesThreeBytes ==
    (WellFormedVolume /\ Resolved /\ pc \in { "return", "ready" } /\ file_found_in_directory) =>
        LET l == SectorNumber(enclosing_directory_sector_address)
        IN  \E s \in SlotIndices :
               /\ SlotMatches(<< l, s >>, entry_index)
               /\ \A b \in 0..(block_size_bytes - 1) :
                     IF b = bytes_per_entry * s
                     THEN disk[l][b] = 229
                     ELSE IF b \in { bytes_per_entry * s + 20, bytes_per_entry * s + 21 }
                     THEN disk[l][b] = 0
                     ELSE disk[l][b] = disk_at_call[l][b]

(***************************************************************************)
(* C10.  Construction stops when a boot-sector step fails: after           *)
(* read_fat32_master_boot_record or read_fat_32_volume_id has reported     *)
(* failure the constructor issues no further device reads, derives no      *)
(* geometry and builds no arena entries.                                   *)
(***************************************************************************)
MbrFailed == pc # "read_mbr" /\ mbr_result = FALSE

VolumeIdFailed == pc \notin { "read_mbr", "read_volume_id" } /\ volume_id_result = FALSE

C10_FailedBootStepStopsConstruction ==
    /\ MbrFailed =>
          /\ pc = "read_volume_id"
          /\ Len(io_log) = 1
          /\ file_systems_entry_index = 0
          /\ call_stack = << >>
    /\ VolumeIdFailed =>
          /\ pc = "geometry"
          /\ Len(io_log) = 2
          /\ file_systems_entry_index = 0
          /\ call_stack = << >>


(***************************************************************************)
(* Vocabulary of the boot-time claims.  During construction the card holds *)
(* the image of the volume, and until the first call of delete_file the    *)
(* log holds the commands of the constructor: first the read of block 0,   *)
(* then the read of the Volume ID block.                                   *)
(***************************************************************************)
MbrReadDone == calls = 0 /\ pc # "read_mbr"

VolumeIdReadDone == calls = 0 /\ pc \notin { "read_mbr", "read_volume_id" }

MbrBlock == ImageOf(volume)[0]

SignatureValid(block) ==
    \/ block[510] = 85 /\ block[511] = 170
    \/ block[510] = 170 /\ block[511] = 85

\* bytes at..at+3 of a block, least significant first on disk, as a 4-byte
\* quantity with the most significant byte first
LittleEndian4(block, at) == << block[at + 3], block[at + 2], block[at + 1], block[at] >>

(***************************************************************************)
(* C11: read_fat32_master_boot_record returns success exactly when the     *)
(* read of block 0 was accepted, the type code at byte 450 is 0x0B or      *)
(* 0x0C, and bytes 510-511 are 0x55,0xAA in either order; on success       *)
(* lba_begin and number_of_sectors hold bytes 454-457 and 458-461 with the *)
(* most significant byte first.                                            *)
(***************************************************************************)
C11_MbrSuccessExactlyWhenReadableAndValid ==
    MbrReadDone =>
        /\ (mbr_result = TRUE) <=>
               (io_log[1].accepted /\ MbrBlock[450] \in { 11, 12 } /\ SignatureValid(MbrBlock))
        /\ (mbr_result = TRUE) =>
               /\ fat_32_master_boot_record.lba_begin = LittleEndian4(MbrBlock, 454)
               /\ fat_32_master_boot_record.number_of_sectors = LittleEndian4(MbrBlock, 458)

\* block 0 was read and accepted as a FAT32 master boot record
C11_Witness ==
    /\ pc = "read_volume_id"
    /\ mbr_result = TRUE
    /\ fat_32_master_boot_record.lba_begin = <<0, 0, 0, 1>>


(***************************************************************************)
(* C12: read_fat_32_volume_id reports failure whenever the block read      *)
(* fails and whenever the signature is invalid, and success only when the  *)
(* read was accepted and bytes 510-511 of the block read are 0x55,0xAA in  *)
(* either order.                                                           *)
(***************************************************************************)
C12_VolumeIdSuccessOnlyWhenReadAndValid ==
    VolumeIdReadDone =>
        ((volume_id_result = TRUE) <=>
            /\ io_log[2].accepted
            /\ SignatureValid(
                   ImageOf(volume)[SectorNumber(fat_32_master_boot_record.lba_begin)]))


(***************************************************************************)
(* C13: a refused block read or write during delete_file is propagated:    *)
(* the call returns failure, and the buffer of a refused read is not       *)
(* written back.  Stated for the well-formed volumes.                      *)
(***************************************************************************)
RefusedCommands == { k \in DOMAIN io_log : ~io_log[k].accepted }

C13_RefusedCommandMakesDeleteFail ==
    (calls > 0 /\ WellFormedVolume) =>
        /\ \A k \in RefusedCommands :
               (io_log[k].op = "read" /\ k + 1 \in DOMAIN io_log) =>
                   ~(io_log[k + 1].op = "write" /\ io_log[k + 1].lba = io_log[k].lba)
        /\ (Returned /\ RefusedCommands # {}) => result = FALSE


(***************************************************************************)
(* C14: during delete_file every write of a FAT sector targets an LBA in   *)
(* [fat_begin_lba, fat_begin_lba + sectors_per_fat), whatever the FAT      *)
(* chain being followed holds.  While step 2 runs, and until step 3 issues *)
(* its first command, the log of the call holds the commands of step 2     *)
(* only.  Stated for a constructor that accepted both boot sectors.        *)
(***************************************************************************)
InFirstFat(block_address) ==
    /\ block_address[1] = 0 /\ block_address[2] = 0
    /\ Low16(block_address) >= SectorNumber(fat_begin_lba)
    /\ Low16(block_address) <
           SectorNumber(fat_begin_lba) + Low16(fat_32_volume_id.sectors_per_fat)

C14_FatWritesStayInFirstFat ==
    (calls > 0 /\ pc = "free_fat_chain" /\ mbr_result = TRUE /\ volume_id_result = TRUE) =>
        \A k \in DOMAIN io_log : io_log[k].op = "write" => InFirstFat(io_log[k].lba)


(***************************************************************************)
(* Vocabulary of the translator claims: 32-bit quantities as two 16-bit    *)
(* halves, so that the expected values are computed without the byte-wise  *)
(* routines of the engine.                                                 *)
(***************************************************************************)
High16(x) == x[1] * 256 + x[2]

FromHalves(high, low) == << high \div 256, high % 256, low \div 256, low % 256 >>

\* (cluster_begin_lba + (n - 2) * sectors_per_cluster) mod 2^32, for n >= 2
ExpectedSectorAddress(n, sectors_per_cluster, begin) ==
    LET low_minus == Low16(n) - 2
        borrow == IF low_minus < 0 THEN 1 ELSE 0
        count_low == (low_minus + 65536) % 65536
        count_high == (High16(n) - borrow + 65536) % 65536
        product_low == count_low * sectors_per_cluster
        product_high == (count_high * sectors_per_cluster) + (product_low \div 65536)
        sum_low == Low16(begin) + (product_low % 65536)
        sum_high == High16(begin) + (product_high % 65536) + (sum_low \div 65536)
    IN  FromHalves(sum_high % 65536, sum_low % 65536)

AtLeastTwo(n) == High16(n) > 0 \/ Low16(n) >= 2

(***************************************************************************)
(* C15: for every cluster number n >= 2,                                   *)
(* calculate_sector_address_from_cluster_number yields                     *)
(* (cluster_begin_lba + (n - 2) * sectors_per_cluster) mod 2^32; it issues *)
(* no block command and runs to its end: the call has returned, with this  *)
(* value and an untouched card.                                            *)
(***************************************************************************)
SectorAddressTranslated == translation_output.sector_address # << >>

C15_SectorAddressOfCluster ==
    (SectorAddressTranslated /\ AtLeastTwo(translation_input.cluster_number)) =>
        /\ translation_output.sector_address =
               ExpectedSectorAddress(translation_input.cluster_number,
                                     translation_input.sectors_per_cluster,
                                     translation_input.cluster_begin_lba)
        /\ io_log = << >>
        /\ disk = ImageOf(volume)

\* cluster 1000 of a volume with 8 sectors per cluster and data region at 4016
C15_Witness ==
    /\ translation_input =
           [cluster_number |-> <<0, 0, 3, 232>>, sectors_per_cluster |-> 8,
            cluster_begin_lba |-> <<0, 0, 15, 176>>]
    /\ translation_output.sector_address = <<0, 0, 46, 224>>


(***************************************************************************)
(* C16: for every cluster number n,                                        *)
(* calculate_fat_sector_offset_from_cluster_number, given a zeroed offset  *)
(* accumulator, yields sector offset n div 128 and byte index              *)
(* (n mod 128) * 4, a multiple of 4 in 0..508.                             *)
(***************************************************************************)
FatSectorOffsetTranslated == translation_output.fat_sector_offset # << >>

\* n div 128, for a 32-bit n
ExpectedFatSectorOffset(n) ==
    LET quotient == (High16(n) * 512) + (Low16(n) \div 128)
    IN  FromHalves(quotient \div 65536, quotient % 65536)

GeometryDerived == pc \notin { "read_mbr", "read_volume_id", "geometry" }

PartitionBegin == LittleEndian4(MbrBlock, 454)

VolumeIdOnCard == SectorNumber(PartitionBegin) \in DOMAIN ImageOf(volume)

VolumeIdBlock == ImageOf(volume)[SectorNumber(PartitionBegin)]

Plus32(x, y) ==
    LET low == Low16(x) + Low16(y)
        high == High16(x) + High16(y) + (low \div 65536)
    IN  FromHalves(high % 65536, low % 65536)

\* x * m mod 2^32, for m < 256
Times32(x, m) ==
    LET low == Low16(x) * m
        high == (High16(x) * m) + (low \div 65536)
    IN  FromHalves(high % 65536, low % 65536)

(***************************************************************************)
(* C17: after construction fat_begin_lba = lba_begin + reserved sectors    *)
(* and cluster_begin_lba = lba_begin + reserved sectors + number_of_fats * *)
(* sectors_per_fat, modulo 2^32, the fields being the little-endian bytes  *)
(* on the card.                                                            *)
(***************************************************************************)
C17_GeometryFromOnDiskFields ==
    (GeometryDerived /\ VolumeIdOnCard) =>
        LET reserved == << 0, 0, VolumeIdBlock[15], VolumeIdBlock[14] >>
            number_of_fats == VolumeIdBlock[16]
            sectors_per_fat == LittleEndian4(VolumeIdBlock, 36)
        IN  /\ fat_begin_lba = Plus32(PartitionBegin, reserved)
            /\ cluster_begin_lba =
                   Plus32(Plus32(PartitionBegin, reserved),
                          Times32(sectors_per_fat, number_of_fats))

\* the volume whose FAT sectors add up to 0xFFFFFFFE: the sum wraps to 0
C17_Witness ==
    /\ volume = "wrapping"
    /\ pc = "ready"
    /\ fat_begin_lba = <<0, 0, 0, 2>>
    /\ cluster_begin_lba = <<0, 0, 0, 0>>

(***************************************************************************)
(* C18, as stated: for an MBR with type code 0x0C, signature 0x55 0xAA and *)
(* partition LBA-begin 0x00000800, and a Volume ID with 8 sectors per      *)
(* cluster, 32 reserved sectors, 2 FATs of 968 sectors and root cluster 2, *)
(* construction yields fat_begin_lba = 0x00000820 and cluster_begin_lba =  *)
(* 0x00000F70.                                                             *)
(***************************************************************************)
C18_ScenarioGeometryAsStated ==
    (volume = "scenario" /\ GeometryDerived) =>
        /\ fat_begin_lba = <<0, 0, 8, 32>>
        /\ cluster_begin_lba = <<0, 0, 15, 112>>

(***************************************************************************)
(* C18, amended: for that MBR and Volume ID, construction yields           *)
(* fat_begin_lba = 0x00000820 and cluster_begin_lba = 0x00000FB0           *)
(* (0x820 + 2 * 968 = 4016).                                               *)
(***************************************************************************)
C18_ScenarioGeometry ==
    (volume = "scenario" /\ GeometryDerived) =>
        /\ fat_begin_lba = <<0, 0, 8, 32>>
        /\ cluster_begin_lba = <<0, 0, 15, 176>>

C18_Witness ==
    /\ volume = "scenario"
    /\ pc = "ready"
    /\ MbrBlock[450] = 12
    /\ PartitionBegin = <<0, 0, 8, 0>>
    /\ fat_32_volume_id.sectors_per_cluster = 8
    /\ fat_32_volume_id.number_of_fats = 2
    /\ fat_32_volume_id.sectors_per_fat = <<0, 0, 3, 200>>


(***************************************************************************)
(* Vocabulary of the tree-build claims: the tree as it lies on the card,   *)
(* read off the image a directory at a time.                               *)
(***************************************************************************)
Built == pc = "ready" /\ calls = 0

\* the sectors of the directory starting at sector l, in reading order
DirSectorSeq(dsk, l) ==
    LET sectors == DirSectorsFrom(dsk, l)
    IN  [k \in 1..Cardinality(sectors) |-> l + k - 1]

\* slot s of sector l lies before the first terminator of its sector
BeforeTerminator(dsk, l, s) == \A t \in 0..s : dsk[l][bytes_per_entry * t] # 0

IsDeletedSlot(dsk, l, s) == dsk[l][bytes_per_entry * s] = 229

IsLfnSlot(dsk, l, s) == SlotAttribute(dsk, l, s) = 15

IsHiddenOrSystemSlot(dsk, l, s) ==
    (SlotAttribute(dsk, l, s) \div 2) % 2 = 1 \/ (SlotAttribute(dsk, l, s) \div 4) % 2 = 1

IsDirectorySlot(dsk, l, s) ==
    (SlotAttribute(dsk, l, s) \div 8) % 2 = 0 /\ (SlotAttribute(dsk, l, s) \div 16) % 2 = 1

\* "." or "..": a directory whose name is one or two dots, blank padded
IsDotSlot(dsk, l, s) ==
    /\ (SlotAttribute(dsk, l, s) \div 16) % 2 = 1
    /\ SlotName(dsk, l, s) \in { N_DOT, N_DOTDOT }

\* the entries of a tree; with_hidden tells whether hidden and system
\* entries count among them
IsTreeSlot(dsk, l, s, with_hidden) ==
    /\ BeforeTerminator(dsk, l, s)
    /\ ~IsDeletedSlot(dsk, l, s)
    /\ ~IsLfnSlot(dsk, l, s)
    /\ ~IsDotSlot(dsk, l, s)
    /\ with_hidden \/ ~IsHiddenOrSystemSlot(dsk, l, s)

\* the tree slots of the directory starting at sector l, in on-disk order
DirSlots(dsk, l, with_hidden) ==
    LET sectors == DirSectorSeq(dsk, l)
        all == [k \in 1..(Len(sectors) * directory_entrys_per_sector) |->
                   << sectors[((k - 1) \div directory_entrys_per_sector) + 1],
                      (k - 1) % directory_entrys_per_sector >>]
    IN  SelectSeq(all, LAMBDA ls : IsTreeSlot(dsk, ls[1], ls[2], with_hidden))

\* what the card says about the entry in slot ls, found in the directory of
\* the element parent
OnDiskEntry(dsk, ls, parent) ==
    [name |-> SlotName(dsk, ls[1], ls[2]),
     attribute |-> SlotAttribute(dsk, ls[1], ls[2]),
     cluster |-> SlotCluster(dsk, ls[1], ls[2]),
     size |-> << dsk[ls[1]][bytes_per_entry * ls[2] + 31],
                 dsk[ls[1]][bytes_per_entry * ls[2] + 30],
                 dsk[ls[1]][bytes_per_entry * ls[2] + 29],
                 dsk[ls[1]][bytes_per_entry * ls[2] + 28] >>,
     parent |-> parent]

\* the entries of the tree below the given slots, each directory followed by
\* its own entries, appended to the entries found so far
RECURSIVE TreeBelow(_, _, _, _, _)
TreeBelow(dsk, slots, parent, found, with_hidden) ==
    IF slots = << >>
    THEN found
    ELSE LET ls == Head(slots)
             self == Len(found)
             with_entry == Append(found, OnDiskEntry(dsk, ls, parent))
             with_children ==
                 IF IsDirectorySlot(dsk, ls[1], ls[2])
                 THEN TreeBelow(dsk,
                                DirSlots(dsk,
                                         ClusterSector(ClusterNumber(SlotCluster(dsk, ls[1], ls[2]))),
                                         with_hidden),
                                self, with_entry, with_hidden)
                 ELSE with_entry
         IN  TreeBelow(dsk, Tail(slots), parent, with_children, with_hidden)

OnDiskTree(with_hidden) ==
    TreeBelow(disk,
              DirSlots(disk,
                       ClusterSector(ClusterNumber(fat_32_volume_id.root_directory_first_cluster)),
                       with_hidden),
              NullPtr, << >>, with_hidden)

\* the arena, element by element
ArenaTree ==
    [k \in 1..Len(file_system_entrys) |->
        [name |-> file_system_entrys[k].name_of_entry,
         attribute |-> file_system_entrys[k].attribute_byte,
         cluster |-> file_system_entrys[k].starting_cluster_address,
         size |-> file_system_entrys[k].size_of_entry_in_bytes,
         parent |-> file_system_entrys[k].parent_directory]]

(***************************************************************************)
(* C19, as stated: the arena built from a volume image reproduces the tree *)
(* on the card minus long-name fragments, deleted entries and "." / "..":  *)
(* every other entry appears exactly once, with the element of its         *)
(* directory as parent (none at root level), and nothing else appears.     *)
(***************************************************************************)
C19_ArenaIsTreeMinusLfnDeletedDots ==
    (Built /\ VolumeIdOnCard) => ArenaTree = OnDiskTree(TRUE)

(***************************************************************************)
(* C19, read with the scan's own skip rules: the arena reproduces the tree *)
(* on the card minus long-name fragments, deleted entries, hidden or       *)
(* system entries and "." / "..": every other entry appears exactly once   *)
(* with the element of its directory as parent, and nothing else appears.  *)
(***************************************************************************)
C19_ArenaIsTreeMinusSkippedEntries ==
    (Built /\ VolumeIdOnCard) => ArenaTree = OnDiskTree(FALSE)

\* the tree volume: nine elements, /DB/DA/F the seventh with /DB/DA (element
\* 5) as parent, the hidden /H absent
C19_Witness ==
    /\ Built
    /\ volume = "tree"
    /\ Len(file_system_entrys) = 9
    /\ file_system_entrys[7].name_of_entry = N_F
    /\ file_system_entrys[7].parent_directory = 5
    /\ \A k \in 1..9 : file_system_entrys[k].name_of_entry # N_H


(***************************************************************************)
(* C20: the scan of a directory stops at the first slot whose first byte   *)
(* is 0x00: the call of read_directory_recursive that meets it ingests     *)
(* nothing more, reads no further sector and ends.  On the scenario card,  *)
(* whose root sector holds README.TXT in slot 0 and nothing in slot 1, the *)
(* arena has exactly one element, with no parent, and the root directory   *)
(* was read once.                                                          *)
(***************************************************************************)
AtTerminator ==
    /\ pc = "build"
    /\ call_stack # << >>
    /\ Top.i < directory_entrys_per_sector
    /\ Top.directory_sector[Top.i * bytes_per_entry] = 0

C20_ScanStopsAtTerminator ==
    /\ []((volume = "scenario" /\ Built) =>
            /\ file_systems_entry_index = 1
            /\ ArenaTree =
                   << [name |-> N_README, attribute |-> 32, cluster |-> <<0, 0, 0, 50>>,
                       size |-> <<0, 0, 4, 0>>, parent |-> NullPtr] >>
            /\ io_log = << LogRead(<<0, 0, 0, 0>>), LogRead(<<0, 0, 8, 0>>),
                           LogRead(<<0, 0, 15, 176>>) >>)
    /\ [][AtTerminator =>
              /\ file_system_entrys' = file_system_entrys
              /\ file_systems_entry_index' = file_systems_entry_index
              /\ io_log' = io_log
              /\ call_stack' = Pop]_vars

\* the scan of the scenario root directory has met the terminator in slot 1
C20_Witness ==
    /\ volume = "scenario"
    /\ Built
    /\ Len(file_system_entrys) = 1
    /\ disk[4016][2 * bytes_per_entry] = 71

(***************************************************************************)
(* The capacity of the arena and the shape of the directory graph.         *)
(***************************************************************************)
\* the damaged volume whose /DA starts at the root directory's cluster
SoundDirectoryGraph == volume # "cyclic"

\* the element write of lines 731-768 is about to go, or has gone, to
\* file_system_entrys[total_directory_entries]
WritePastArena == pc = "out_of_bounds"

(***************************************************************************)
(* C21: the arena never holds more than its 100 elements: throughout the   *)
(* tree build file_systems_entry_index <= total_directory_entries and      *)
(* every element is written at an index in 0..99; a volume with more than  *)
(* 100 entries to take in ends the build with a failure, not with a write  *)
(* past the end of file_system_entrys.  (Stated for the volumes without a  *)
(* directory cycle.)                                                       *)
(***************************************************************************)
C21_ArenaWithinCapacity ==
    SoundDirectoryGraph =>
        /\ file_systems_entry_index <= total_directory_entries
        /\ Len(file_system_entrys) <= total_directory_entries
        /\ ~WritePastArena

\* the starting cluster of the directory a call of read_directory_recursive
\* scans: the root directory's for the outermost call, else its parent's
FrameCluster(f) ==
    IF f.parent_directory = NullPtr
    THEN fat_32_volume_id.root_directory_first_cluster
    ELSE Entry(f.parent_directory).starting_cluster_address

(***************************************************************************)
(* C22: the tree build terminates on every volume image: a subdirectory    *)
(* entry whose starting cluster is that of an ancestor directory is        *)
(* detected and rejected, so no call of read_directory_recursive scans a   *)
(* directory that an enclosing call is already scanning.                   *)
(***************************************************************************)
C22_CyclicDirectoryNotEntered ==
    \A a, b \in DOMAIN call_stack :
        a < b => FrameCluster(call_stack[a]) # FrameCluster(call_stack[b])

(***************************************************************************)
(* The order of the arena.                                                 *)
(***************************************************************************)
Written == 0..(Len(file_system_entrys) - 1)

ParentOf(i) == Entry(i).parent_directory

\* element i lies in the directory of element p or below it
RECURSIVE DescendsFrom(_, _)
DescendsFrom(i, p) ==
    IF ParentOf(i) = NullPtr THEN FALSE
    ELSE IF ParentOf(i) = p THEN TRUE
    ELSE IF ParentOf(i) >= i THEN FALSE
    ELSE DescendsFrom(ParentOf(i), p)

(***************************************************************************)
(* C23 as stated: the children of any one directory occupy contiguous      *)
(* arena indices, and all direct children of a directory are inserted      *)
(* before any child of one of its subdirectories.                          *)
(***************************************************************************)
C23_ChildrenContiguous ==
    /\ \A i, k \in Written :
           (i < k /\ ParentOf(i) = ParentOf(k)) => ParentOf(i + 1) = ParentOf(i)
    /\ \A x, y \in Written :
           (ParentOf(x) # NullPtr /\ ParentOf(ParentOf(x)) = ParentOf(y)) => y < x

(***************************************************************************)
(* C23, amended: the arena is filled in pre-order: every element comes     *)
(* after the element of its directory, and everything between a directory  *)
(* and one of its children lies in that directory or below it (the         *)
(* children of a directory are separated by the contents of its            *)
(* subdirectories).                                                        *)
(***************************************************************************)
C23_PreOrder ==
    \A k \in Written :
        ParentOf(k) # NullPtr =>
            /\ ParentOf(k) < k
            /\ Entry(ParentOf(k)).entry_type = DIRECTORY_ENTRY
            /\ \A j \in (ParentOf(k) + 1)..k : DescendsFrom(j, ParentOf(k))

\* on the tree volume /F (element 3) follows /DA/F (element 2), the only
\* entry of its elder sibling /DA (element 1)
C23_Witness ==
    /\ volume = "tree"
    /\ Built
    /\ ParentOf(1) = NullPtr /\ ParentOf(2) = 1 /\ ParentOf(3) = NullPtr
    /\ Entry(2).name_of_entry = N_F /\ Entry(3).name_of_entry = N_F

(***************************************************************************)
(* The getters of SDCard, between the calls of initialize_sd_card.         *)
(***************************************************************************)
\* no call of initialize_sd_card is in progress
BetweenCalls == sd_pc \in { "constructed", "returned" }

LastReturned == init_returned[Len(init_returned)]

NoSuccessYet == \A k \in DOMAIN init_returned : init_returned[k] # INIT_SUCCESS

(***************************************************************************)
(* C24: get_initialization_result() returns INIT_RESULT_NA before          *)
(* initialize_sd_card() has been called, and once initialize_sd_card()     *)
(* has returned a result r it returns r.                                   *)
(***************************************************************************)
C24_GetterReturnsInitializationResult ==
    /\ (sd_pc = "constructed" => get_initialization_result = INIT_RESULT_NA)
    /\ (sd_pc = "returned" => get_initialization_result = LastReturned)

(***************************************************************************)
(* C25: until initialize_sd_card() has returned INIT_SUCCESS,              *)
(* get_sd_card_information() reports VER_NA, SDNA and OCR contents 0x0,    *)
(* also after a call that returned one of the INIT_FAILED_ON_* results.    *)
(***************************************************************************)
C25_InformationUnavailableUntilSuccess ==
    (BetweenCalls /\ NoSuccessYet) =>
        /\ get_sd_card_information.sd_card_version = VER_NA
        /\ get_sd_card_information.sd_card_standard = SDNA
        /\ get_sd_card_information.ocr_register_contents = <<0, 0, 0, 0>>

(***************************************************************************)
(* The slot the tree build stands on, read from the sector buffer of the   *)
(* innermost call.                                                         *)
(***************************************************************************)
Scanning == pc = "build" /\ call_stack # << >> /\ Top.i < directory_entrys_per_sector

ScannedByte(k) == Top.directory_sector[Top.i * bytes_per_entry + k]

ScannedAttribute == ScannedByte(attribute_byte_offset)

ScannedName == [k \in 1..11 |-> ScannedByte(k - 1)]

\* a directory named "." or ".."
ScannedIsDot ==
    /\ (ScannedAttribute \div 16) % 2 = 1
    /\ ScannedByte(0) = 46
    /\ ScannedByte(1) \in { 46, 32 }
    /\ \A k \in 2..10 : ScannedByte(k) = 32

ScannedIsHiddenOrSystem ==
    (ScannedAttribute \div 2) % 2 = 1 \/ (ScannedAttribute \div 4) % 2 = 1

ScannedIsSkipped ==
    \/ ScannedByte(0) = 229
    \/ ScannedAttribute = 15
    \/ ScannedIsHiddenOrSystem
    \/ ScannedIsDot

ArenaGrows == file_system_entrys' # file_system_entrys

Descends == Len(call_stack') > Len(call_stack)

(***************************************************************************)
(* C26: no arena element is ever created from a slot whose first byte is   *)
(* 0xE5, whose attribute is 0x0F, whose attribute has the hidden or the    *)
(* system bit, or that is a directory named "." or ".."; a hidden or       *)
(* system directory is not descended into.  Every step that adds an        *)
(* element adds exactly one, taken from the slot under the scan, which is  *)
(* none of these; a step on such a slot adds nothing and starts no call.   *)
(***************************************************************************)
C26_SkippedSlotsCreateNoElement ==
    /\ [][ArenaGrows =>
              /\ Scanning
              /\ ~ScannedIsSkipped
              /\ Len(file_system_entrys') = Len(file_system_entrys) + 1
              /\ SubSeq(file_system_entrys', 1, Len(file_system_entrys)) = file_system_entrys
              /\ file_system_entrys'[Len(file_system_entrys')].name_of_entry = ScannedName
              /\ file_system_entrys'[Len(file_system_entrys')].attribute_byte = ScannedAttribute]_vars
    /\ [][(Scanning /\ ScannedIsSkipped /\ ScannedByte(0) # 0) =>
              /\ ~ArenaGrows
              /\ ~Descends
              /\ io_log' = io_log
              /\ call_stack' = Append(Pop, [Top EXCEPT !.i = Top.i + 1])]_vars

\* on the attributes volume the scan of the root directory has passed the
\* hidden directory, the system file, the hidden system directory, "." and
\* ". " and has read no other sector
C26_Witness ==
    /\ volume = "attributes"
    /\ pc = "build"
    /\ Len(call_stack) = 1
    /\ Top.i = 5
    /\ file_system_entrys = << >>
    /\ Len(io_log) = 3
    /\ SlotAttribute(disk, 4, 0) = 18
    /\ SlotAttribute(disk, 4, 2) = 22

(***************************************************************************)
(* The type of an element, read off its own attribute byte.                *)
(***************************************************************************)
HasBit(v, k) == (v \div (2 ^ k)) % 2 = 1

TypeOfAttribute(a) ==
    IF HasBit(a, 3) THEN VOLUME_LABEL
    ELSE IF HasBit(a, 4) THEN DIRECTORY_ENTRY
    ELSE IF HasBit(a, 5) THEN FILE_ENTRY
    ELSE -1

(***************************************************************************)
(* C27: every element appended to the arena has its entry_type assigned    *)
(* from its own attribute byte (VOLUME_LABEL for bit 3, else               *)
(* DIRECTORY_ENTRY for bit 4, else FILE_ENTRY for bit 5), none is left     *)
(* with an unassigned entry_type, and only elements whose own attribute    *)
(* has bit 4 and not bit 3 are descended into.                             *)
(***************************************************************************)
C27_EntryTypeFromOwnAttribute ==
    /\ \A i \in Written :
           /\ TypeOfAttribute(Entry(i).attribute_byte) # -1
           /\ Entry(i).entry_type = TypeOfAttribute(Entry(i).attribute_byte)
    /\ \A k \in DOMAIN call_stack :
           call_stack[k].parent_directory # NullPtr =>
               /\ HasBit(Entry(call_stack[k].parent_directory).attribute_byte, 4)
               /\ ~HasBit(Entry(call_stack[k].parent_directory).attribute_byte, 3)

(***************************************************************************)
(* The calls of read_directory_recursive in progress.                      *)
(***************************************************************************)
\* the element a step has appended, and its index
Appended == file_system_entrys'[Len(file_system_entrys')]

AppendedIndex == Len(file_system_entrys)

\* the calls that enclose the innermost one
Enclosing(stack) == SubSeq(stack, 1, Len(stack) - 1)

\* the call started for the directory of the appended element: first slot
\* of the first sector of its cluster, the element as parent
CallFor(element, index) ==
    LET address == ExpectedSectorAddress(element.starting_cluster_address,
                                         fat_32_volume_id.sectors_per_cluster,
                                         cluster_begin_lba)
    IN  [directory_sector_addr_lba |-> address,
         directory_sector |-> IF SectorNumber(address) \in DOMAIN disk
                              THEN disk[SectorNumber(address)] ELSE ZeroSector,
         i |-> 0,
         parent_directory |-> index]

(***************************************************************************)
(* C28: when the tree build appends a DIRECTORY_ENTRY at index i it scans  *)
(* that directory completely, with element i as parent, before it          *)
(* examines the next slot of the current sector: the call for the          *)
(* directory starts in the same step, the enclosing calls stand still      *)
(* until it has returned, and every element appended meanwhile lies in     *)
(* that directory or below it.  Hence in the built arena the descendants   *)
(* of i are the elements i+1, i+2, ... up to the last of them, and a later *)
(* sibling of i comes after all of them.                                   *)
(***************************************************************************)
C28_DirectoryScannedBeforeNextSlot ==
    /\ [][(ArenaGrows /\ Appended.entry_type = DIRECTORY_ENTRY
                      /\ AtLeastTwo(Appended.starting_cluster_address)) =>
              call_stack' = Append(Append(Pop, [Top EXCEPT !.i = Top.i + 1]),
                                   CallFor(Appended, AppendedIndex))]_vars
    /\ [][(pc = "build" /\ call_stack # << >>) =>
              /\ Len(call_stack') \in (Len(call_stack) - 1)..(Len(call_stack) + 1)
              /\ SubSeq(call_stack', 1, Len(call_stack) - 1) = Enclosing(call_stack)]_vars
    /\ [][ArenaGrows =>
              /\ Appended.parent_directory = Top.parent_directory
              /\ \A k \in DOMAIN call_stack :
                     call_stack[k].parent_directory # NullPtr =>
                         \/ call_stack[k].parent_directory = Appended.parent_directory
                         \/ DescendsFrom(Appended.parent_directory,
                                         call_stack[k].parent_directory)]_vars
    /\ [](pc = "ready" =>
              \A i, j \in Written :
                  /\ DescendsFrom(j, i) => \A m \in (i + 1)..j : DescendsFrom(m, i)
                  /\ (i < j /\ ParentOf(i) = ParentOf(j)) =>
                         \A d \in Written : DescendsFrom(d, i) => d < j)

\* on the tree volume the calls for /, /DB and /DB/DA are in progress, the
\* innermost has appended /DB/DA/F and the root's remaining entries E1 and
\* E2 are not yet in the arena
C28_Witness ==
    /\ volume = "tree"
    /\ pc = "build"
    /\ Len(call_stack) = 3
    /\ call_stack[2].parent_directory = 4
    /\ Top.parent_directory = 5
    /\ Len(file_system_entrys) = 7
    /\ ParentOf(6) = 5

(***************************************************************************)
(* Directories of more than one sector.                                    *)
(***************************************************************************)
\* the innermost call of the tree build has scanned sixteen slots without
\* meeting a terminator
SectorExhausted == pc = "build" /\ call_stack # << >> /\ Top.i = directory_entrys_per_sector

\* the buffer after a read of the sector at this address
BufferAfterRead(buffer, address) ==
    IF SectorNumber(address) \in DOMAIN disk THEN disk[SectorNumber(address)] ELSE buffer

IsDirectoryRead(command) ==
    command.op = "read" /\ SectorNumber(command.lba) \in DataSectors

\* the sectors of the data region the current call has read, in order
RECURSIVE SectorsOf(_)
SectorsOf(commands) ==
    IF commands = << >> THEN << >>
    ELSE << SectorNumber(Head(commands).lba) >> \o SectorsOf(Tail(commands))

DirectoryReads == SectorsOf(SelectSeq(io_log, IsDirectoryRead))

WrittenSectors == { SectorNumber(io_log[k].lba) : k \in DirectoryWrites }

HasTerminator(dsk, l) == \E s \in SlotIndices : dsk[l][bytes_per_entry * s] = 0

\* the first sector of the directory that holds element i
HomeFirstSector(i) ==
    IF ParentOf(i) = NullPtr
    THEN ClusterSector(ClusterNumber(fat_32_volume_id.root_directory_first_cluster))
    ELSE ClusterSector(ClusterNumber(Entry(ParentOf(i)).starting_cluster_address))

\* the tree build: a call that has exhausted a sector reads the next LBA
\* into its buffer and goes on from slot 0 with the same parent
BuildContinuesAtNextSector ==
    [][SectorExhausted =>
           LET next == Plus32(Top.directory_sector_addr_lba, <<0, 0, 0, 1>>)
           IN  /\ call_stack' =
                      Append(Pop, [directory_sector_addr_lba |-> next,
                                   directory_sector |-> BufferAfterRead(Top.directory_sector, next),
                                   i |-> 0,
                                   parent_directory |-> Top.parent_directory])
               /\ io_log' = Record(io_log, LogRead(next))
               /\ file_system_entrys' = file_system_entrys]_vars

\* the root directory of two sectors: both read once, in order, and the
\* entries of both sectors without a parent
TwoSectorRootBuilt ==
    (volume = "two_sector" /\ Built) =>
        /\ DirectoryReads = << 4, 5 >>
        /\ Len(file_system_entrys) = 3
        /\ Entry(0).name_of_entry = N_E1 /\ Entry(1).name_of_entry = N_E2
        /\ Entry(2).name_of_entry = N_F
        /\ \A i \in Written : ParentOf(i) = NullPtr

\* a returned call that had resolved its element and whose log is complete
ScanReturned == Returned /\ entry_index # -1 /\ Len(io_log) < MaxLog

(***************************************************************************)
(* C29 as stated: the tree build and the tombstone scan of delete_file     *)
(* read the sectors start, start+1, ... of a directory in that order, each *)
(* once, until a sector with a 0x00 terminator has been scanned; entries   *)
(* of the later sectors get the parent of those of the first.              *)
(***************************************************************************)
C29_SectorsReadUpToTerminator ==
    /\ BuildContinuesAtNextSector
    /\ []TwoSectorRootBuilt
    /\ [](ScanReturned =>
              DirectoryReads = DirSectorSeq(disk_at_call, HomeFirstSector(entry_index)))

(***************************************************************************)
(* C29, amended: the tree build reads the sectors start, start+1, ... of a *)
(* directory in that order, each once, until a sector with a 0x00          *)
(* terminator has been scanned, and entries of the later sectors get the   *)
(* parent of those of the first; the tombstone scan of delete_file reads   *)
(* them in the same order, each once, until it has scanned a sector that   *)
(* holds the terminator or a slot it has tombstoned.                       *)
(***************************************************************************)
C29_SectorsReadInOrder ==
    /\ BuildContinuesAtNextSector
    /\ []TwoSectorRootBuilt
    /\ [](ScanReturned =>
              LET sectors == DirSectorSeq(disk_at_call, HomeFirstSector(entry_index))
                  read == Len(DirectoryReads)
              IN  /\ read \in 1..Len(sectors)
                  /\ DirectoryReads = SubSeq(sectors, 1, read)
                  /\ \/ HasTerminator(disk_at_call, DirectoryReads[read])
                     \/ DirectoryReads[read] \in WrittenSectors
                  /\ \A k \in 1..(read - 1) :
                         /\ ~HasTerminator(disk_at_call, DirectoryReads[k])
                         /\ DirectoryReads[k] \notin WrittenSectors)

\* on the volume with a root directory of two sectors /F, an entry of the
\* second sector, has been deleted: both sectors were read and the second
\* was written
C29_Witness ==
    /\ volume = "two_sector"
    /\ Returned
    /\ request.file_name = N_F
    /\ result = TRUE
    /\ DirectoryReads = << 4, 5 >>
    /\ WrittenSectors = { 5 }
    /\ ParentOf(2) = NullPtr

(***************************************************************************)
(* The FAT during a call for an element without clusters.                  *)
(***************************************************************************)
\* the sectors of both FATs
FatRegion ==
    { l \in DOMAIN disk : SectorNumber(fat_begin_lba) <= l /\ l < SectorNumber(cluster_begin_lba) }

\* the call in progress, or the last one, resolved an element whose
\* starting cluster is 0 or 1
NothingAllocated ==
    /\ Resolved
    /\ Entry(entry_index).starting_cluster_address \in { <<0, 0, 0, 0>>, <<0, 0, 0, 1>> }

(***************************************************************************)
(* C30: if the resolved element's starting cluster is 0 or 1, delete_file  *)
(* reads no FAT sector and writes no FAT sector and goes directly to the   *)
(* tombstoning of the directory entry (its first block command is the read *)
(* of the first sector of the enclosing directory); the FAT is             *)
(* byte-for-byte unchanged by the call.                                    *)
(***************************************************************************)
C30_NoAllocationLeavesFatAlone ==
    NothingAllocated =>
        /\ \A k \in DOMAIN io_log : SectorNumber(io_log[k].lba) \notin FatRegion
        /\ io_log # << >> =>
               /\ io_log[1].op = "read"
               /\ SectorNumber(io_log[1].lba) = HomeFirstSector(entry_index)
        /\ \A l \in FatRegion : disk[l] = disk_at_call[l]
        /\ freed_clusters = {}
        /\ pc = "free_fat_chain" => file_deleted_from_fat_table

\* on the attributes volume /E2, whose starting cluster field is 1, has
\* been deleted: its slot was tombstoned in the root sector
C30_Witness ==
    /\ volume = "attributes"
    /\ Returned
    /\ NothingAllocated
    /\ request.file_name = N_E2
    /\ Entry(entry_index).starting_cluster_address = <<0, 0, 0, 1>>
    /\ result = TRUE
    /\ WrittenSectors = { 4 }
    /\ disk[4][12 * bytes_per_entry] = 229

(***************************************************************************)
(* Vocabulary of C31: the cluster numbers handed to                        *)
(* calculate_sector_address_from_cluster_number.  Every frame of           *)
(* read_directory_recursive was entered with the address translated from   *)
(* the root directory's cluster (no parent) or from the starting cluster   *)
(* of its parent element; step 3 of delete_file translates the cluster of  *)
(* the directory enclosing the resolved element.                           *)
(***************************************************************************)
ReservedCluster(c) == c[1] = 0 /\ c[2] = 0 /\ c[3] = 0 /\ c[4] < 2

DirectoryCluster(parent_directory) ==
    IF parent_directory = NullPtr
    THEN fat_32_volume_id.root_directory_first_cluster
    ELSE Entry(parent_directory).starting_cluster_address

\* the arguments of the calls whose results the state still holds
TranslatedForBuild ==
    { DirectoryCluster(call_stack[k].parent_directory) : k \in DOMAIN call_stack }

TranslatedForDelete ==
    IF pc \in { "tombstone", "return" }
    THEN { DirectoryCluster(Entry(entry_index).parent_directory) }
    ELSE {}

(***************************************************************************)
(* C31: calculate_sector_address_from_cluster_number is never called with  *)
(* a cluster number below 2, in the constructor, the tree build and        *)
(* delete_file, on every volume image.                                     *)
(***************************************************************************)
C31_TranslatorNeverGivenReservedCluster ==
    \A c \in TranslatedForBuild \cup TranslatedForDelete : ~ReservedCluster(c)

(***************************************************************************)
(* C32: for operands a and b with every slot in 0..255, add_4_byte_numbers *)
(* leaves (a + b) mod 2^32 in the result, every slot in 0..255, the carry  *)
(* out of the most significant slot discarded; also when the result is the *)
(* array of one of the operands, or of both.  The value is the one the     *)
(* callers are taken to receive.                                           *)
(***************************************************************************)
AdditionReturned == pc = "add" /\ addition.returned

C32_SumModulo2To32 ==
    AdditionReturned =>
        LET sum == addition.memory[addition.result]
        IN  /\ sum = Plus32(addition.operand_1, addition.operand_2)
            /\ \A k \in 1..4 : sum[k] \in 0..255
            /\ sum = add_4_byte_numbers(addition.operand_1, addition.operand_2)

\* 0xFFFFFFFF + 1 added into the array of the first operand: the carry runs
\* through every slot and is dropped
C32_Witness ==
    /\ AdditionReturned
    /\ addition.operand_1 = <<255, 255, 255, 255>>
    /\ addition.operand_2 = <<0, 0, 0, 1>>
    /\ addition.result = addition.number_1
    /\ addition.memory[addition.result] = <<0, 0, 0, 0>>

(***************************************************************************)
(* C33: every SD command, the block read send_cmd17 included, returns      *)
(* SD_CARD_NO_RESPONSE once exactly NUM_INVALID_RESPONSE_LIMIT_SPI_READ    *)
(* (10) bytes have been read without a valid response; no command reads    *)
(* an eleventh byte while waiting.                                         *)
(***************************************************************************)
CommandSent == last_command.command # "none"

C33_CommandsGiveUpAfterTenReads ==
    CommandSent =>
        /\ last_command.spi_reads <= NUM_INVALID_RESPONSE_LIMIT_SPI_READ
        /\ last_command.response = SD_CARD_NO_RESPONSE =>
               last_command.spi_reads = NUM_INVALID_RESPONSE_LIMIT_SPI_READ

(***************************************************************************)
(* C34: a delete_file call that finds no element returns false without a   *)
(* block read or write: the card and the index are as they were when the   *)
(* call began.                                                             *)
(***************************************************************************)
ResolutionFailed == Returned /\ entry_index = -1

C34_FailedResolutionTouchesNothing ==
    ResolutionFailed =>
        /\ result = FALSE
        /\ history[Len(history)] = [request |-> request, entry_index |-> -1, result |-> FALSE]
        /\ io_log = << >>
        /\ disk = disk_at_call
        /\ file_system_entrys = entrys_at_call
        /\ freed_clusters = {}

\* a call that found nothing, made after a call that changed the card
C34_Witness ==
    /\ ResolutionFailed
    /\ calls = 2
    /\ history[1].result = TRUE
    /\ disk # ImageOf(volume)
    /\ disk = disk_at_call
    /\ result = FALSE

(***************************************************************************)
(* C35: step 2 of delete_file terminates for every content of the FAT.     *)
(* The loop has no state but current_cluster_number, the flag and the      *)
(* card, and every block command returns: it runs forever exactly when a   *)
(* pass leaves all three as it found them.  No pass does.                  *)
(***************************************************************************)
InFatWalk == pc = "free_fat_chain" /\ ~file_deleted_from_fat_table

C35_FatWalkTerminates ==
    [][InFatWalk =>
          ~(/\ pc' = pc
            /\ file_deleted_from_fat_table' = file_deleted_from_fat_table
            /\ current_cluster_number' = current_cluster_number
            /\ disk' = disk)]_vars

(***************************************************************************)
(* C36: step 2 of delete_file never zeroes the FAT slot of reserved        *)
(* cluster 0 or 1: every slot it clears belongs to a cluster number >= 2,  *)
(* for every FAT content and every resolved element.                       *)
(***************************************************************************)
C36_ReservedFatSlotsNeverCleared ==
    \A c \in freed_clusters : ~ReservedCluster(c)

(***************************************************************************)
(* C37: the element delete_file resolves a request to is one the tree      *)
(* build populated: its index is below file_systems_entry_index and its    *)
(* entry_in_use flag is set; an element the build never wrote is never     *)
(* the delete target.                                                      *)
(***************************************************************************)
C37_ResolutionSelectsPopulatedElements ==
    entry_index # -1 =>
        /\ entry_index < file_systems_entry_index
        /\ Entry(entry_index).entry_in_use

(***************************************************************************)
(* C38: a call of delete_file whose request resolves to an element of type *)
(* DIRECTORY_ENTRY or VOLUME_LABEL does not return true, frees no cluster  *)
(* and leaves every sector of the card as it was when the call began.      *)
(***************************************************************************)
ResolvedToNonFile ==
    /\ calls > 0
    /\ entry_index # -1
    /\ entry_index < file_systems_entry_index
    /\ Entry(entry_index).entry_type \in { DIRECTORY_ENTRY, VOLUME_LABEL }

C38_OnlyFilesAreDeleted ==
    ResolvedToNonFile =>
        /\ pc = "ready" => result = FALSE
        /\ freed_clusters = {}
        /\ disk = disk_at_call

(***************************************************************************)
(* C39: every in-use element of the arena has no parent or a parent that   *)
(* is an in-use element of type DIRECTORY_ENTRY at a strictly lower index, *)
(* and from every element the parent references reach "no parent" within   *)
(* as many steps as the arena has elements.  Stated of the arena at every  *)
(* moment of the build and after it.                                       *)
(***************************************************************************)
\* following parent references from p ends within the given number of steps
RECURSIVE ReachesNoParent(_, _)
ReachesNoParent(p, steps) ==
    IF p = NullPtr
    THEN TRUE
    ELSE IF steps = 0 \/ p < 0 \/ p >= total_directory_entries
    THEN FALSE
    ELSE ReachesNoParent(Entry(p).parent_directory, steps - 1)

C39_ParentIsEarlierDirectory ==
    \A i \in 0..(total_directory_entries - 1) :
        Entry(i).entry_in_use =>
            LET p == Entry(i).parent_directory
            IN  /\ p # NullPtr =>
                      /\ p >= 0
                      /\ p < i
                      /\ Entry(p).entry_in_use
                      /\ Entry(p).entry_type = DIRECTORY_ENTRY
                /\ ReachesNoParent(p, file_systems_entry_index)

\* the build has finished with an element two directories deep
C39_Witness ==
    /\ Built
    /\ \E i \in 0..(file_systems_entry_index - 1) :
          /\ Entry(i).entry_in_use
          /\ AncestorOf(i, 1) # NullPtr
          /\ AncestorOf(i, 2) = NullPtr

(***************************************************************************)
(* C40: every call of initialize_sd_card returns, whatever the card sends  *)
(* in answer to each command, a card that answers every ACMD41 with 0x01   *)
(* included.                                                               *)
(***************************************************************************)
InitializeInProgress == sd_pc \notin { "constructed", "returned" }

C40_InitializeTerminates == InitializeInProgress ~> (sd_pc = "returned")

=============================================================================
